---- MODULE Spec2Model ----
(***************************************************************************)
(* State-machine model of the keyword-heuristic agents of the repository:  *)
(* AdvancedAgent (advanced_agent.py), BasicAgent (my_agent.py),            *)
(* SimplifiedAgent (simplified_agent.py), SimplifiedAdvancedAgent          *)
(* (simplified_advanced_agent.py) and the title similarity score of        *)
(* EnhancedArxivSearch (enhanced_arxiv.py).                                *)
(*                                                                         *)
(* Queries and titles are real character strings; lower(), split(),        *)
(* substring tests and the regular expressions are computed character by   *)
(* character.  A response is a record: the name of the string template     *)
(* the code fills in, plus the values it puts into it.                     *)
(***************************************************************************)
EXTENDS Integers, Sequences, FiniteSets, TLC

(***************************************************************************)
(* Bounds                                                                  *)
(***************************************************************************)
\* longest query, in vocabulary tokens
MaxWords == 3
\* longest title, in title tokens
MaxTitleWords == 2

(***************************************************************************)
(* Python string primitives                                                *)
(***************************************************************************)
UpperAlpha == "ABCDEFGHIJKLMNOPQRSTUVWXYZ"
LowerAlpha == "abcdefghijklmnopqrstuvwxyz"
Digits == "0123456789"

At(s, i) == SubSeq(s, i, i)

UpperChars == {At(UpperAlpha, i) : i \in 1..26}
LowerChars == {At(LowerAlpha, i) : i \in 1..26}
DigitChars == {At(Digits, i) : i \in 1..10}

IsUpper(c) == c \in UpperChars
IsLower(c) == c \in LowerChars
IsDigit(c) == c \in DigitChars
IsSpace(c) == c \in {" ", "\t", "\n"}
\* the class \w of the re module: letters, digits, underscore
IsWordChar(c) == IsUpper(c) \/ IsLower(c) \/ IsDigit(c) \/ c = "_"

\* the lower-case letter of each upper-case letter
LowerOf ==
    [c \in UpperChars |->
        At(LowerAlpha, CHOOSE i \in 1..26 : At(UpperAlpha, i) = c)]

LowerChar(c) == IF IsUpper(c) THEN LowerOf[c] ELSE c

\* str.lower()
RECURSIVE lower(_)
lower(s) ==
    IF s = "" THEN "" ELSE LowerChar(At(s, 1)) \o lower(SubSeq(s, 2, Len(s)))

\* term in text
Contains(s, term) ==
    \E i \in 1..(Len(s) - Len(term) + 1) : SubSeq(s, i, i + Len(term) - 1) = term

\* text.startswith(prefix)
StartsWith(s, prefix) ==
    Len(s) >= Len(prefix) /\ SubSeq(s, 1, Len(prefix)) = prefix

\* any(term in text for term in terms)
AnyTerm(s, terms) == \E t \in terms : Contains(s, t)

\* str.split(): split on runs of whitespace, no empty words
RECURSIVE SplitFrom(_, _, _)
SplitFrom(s, i, cur) ==
    IF i > Len(s)
    THEN (IF cur = "" THEN <<>> ELSE <<cur>>)
    ELSE IF IsSpace(At(s, i))
         THEN (IF cur = "" THEN SplitFrom(s, i + 1, "")
                           ELSE <<cur>> \o SplitFrom(s, i + 1, ""))
         ELSE SplitFrom(s, i + 1, cur \o At(s, i))

split(s) == SplitFrom(s, 1, "")

\* the character classes \d and \w
InClass(cls, c) == IF cls = "d" THEN IsDigit(c) ELSE IsWordChar(c)

\* index of the last character of the maximal run of characters of class
\* cls starting at i (i - 1 when the run is empty)
RECURSIVE RunEnd(_, _, _)
RunEnd(s, i, cls) ==
    IF i <= Len(s) /\ InClass(cls, At(s, i)) THEN RunEnd(s, i + 1, cls) ELSE i - 1

\* end of the greedy match of \d+\.?\d* that starts at the digit s[i]
FloatMatchEnd(s, i) ==
    LET e1 == RunEnd(s, i, "d")
        e2 == IF e1 + 1 <= Len(s) /\ At(s, e1 + 1) = "." THEN e1 + 1 ELSE e1
    IN  RunEnd(s, e2 + 1, "d")

\* re.findall(r'\d+\.?\d*', s)
RECURSIVE FindFloatsFrom(_, _)
FindFloatsFrom(s, i) ==
    IF i > Len(s) THEN <<>>
    ELSE IF IsDigit(At(s, i))
         THEN LET e == FloatMatchEnd(s, i)
              IN  <<SubSeq(s, i, e)>> \o FindFloatsFrom(s, e + 1)
         ELSE FindFloatsFrom(s, i + 1)

findall_float(s) == FindFloatsFrom(s, 1)

\* re.findall(r'\d+', s)  and  re.findall(r'\w+', s)
RECURSIVE FindRunsFrom(_, _, _)
FindRunsFrom(s, i, cls) ==
    IF i > Len(s) THEN <<>>
    ELSE IF InClass(cls, At(s, i))
         THEN LET e == RunEnd(s, i, cls)
              IN  <<SubSeq(s, i, e)>> \o FindRunsFrom(s, e + 1, cls)
         ELSE FindRunsFrom(s, i + 1, cls)

findall_digits(s) == FindRunsFrom(s, 1, "d")
findall_words(s) == FindRunsFrom(s, 1, "w")

(***************************************************************************)
(* Numbers.  A Python number is modelled as an exact fraction in lowest    *)
(* terms, [n |-> numerator, d |-> denominator > 0].                        *)
(***************************************************************************)
Abs(x) == IF x < 0 THEN -x ELSE x

RECURSIVE GCD(_, _)
GCD(a, b) == IF b = 0 THEN a ELSE GCD(b, a % b)

Rat(n, d) ==
    LET g == GCD(Abs(n), Abs(d))
        sgn == IF d < 0 THEN -1 ELSE 1
    IN  [n |-> sgn * (n \div g), d |-> sgn * (d \div g)]

RECURSIVE Pow(_, _)
Pow(b, e) == IF e = 0 THEN 1 ELSE b * Pow(b, e - 1)

\* the value of each decimal digit
DigitValues == [c \in DigitChars |-> CHOOSE v \in 0..9 : At(Digits, v + 1) = c]

DigitVal(c) == DigitValues[c]

\* int(s) of a string of decimal digits
RECURSIVE int(_)
int(s) ==
    IF s = "" THEN 0
    ELSE 10 * int(SubSeq(s, 1, Len(s) - 1)) + DigitVal(At(s, Len(s)))

\* float(s) of a string matched by \d+\.?\d*
float(s) ==
    LET e1 == RunEnd(s, 1, "d")
        frac == SubSeq(s, e1 + 2, Len(s))
    IN  Rat(int(SubSeq(s, 1, e1)) * Pow(10, Len(frac)) + int(frac),
            Pow(10, Len(frac)))

IsZero(x) == x.n = 0
IsWhole(x) == x.d = 1

Add(x, y) == Rat(x.n * y.d + y.n * x.d, x.d * y.d)
Sub(x, y) == Rat(x.n * y.d - y.n * x.d, x.d * y.d)
Mul(x, y) == Rat(x.n * y.n, x.d * y.d)
\* x / y, y nonzero
Div(x, y) == Rat(x.n * y.d, x.d * y.n)
\* x ** y: exact for a whole exponent (parsed numbers are never negative);
\* a fractional exponent gives an irrational float, kept symbolic
Power(x, y) ==
    IF IsWhole(y) THEN Rat(Pow(x.n, y.n), Pow(x.d, y.n))
    ELSE [pow |-> <<x, y>>]

\* str.strip()
RECURSIVE lstrip(_)
lstrip(s) ==
    IF s # "" /\ IsSpace(At(s, 1)) THEN lstrip(SubSeq(s, 2, Len(s))) ELSE s

RECURSIVE rstrip(_)
rstrip(s) ==
    IF s # "" /\ IsSpace(At(s, Len(s))) THEN rstrip(SubSeq(s, 1, Len(s) - 1)) ELSE s

strip(s) == rstrip(lstrip(s))

\* s.replace(old, ""): drop the non-overlapping occurrences of old, left to right
RECURSIVE RemoveFrom(_, _, _)
RemoveFrom(s, i, old) ==
    IF i > Len(s) THEN ""
    ELSE IF i + Len(old) - 1 <= Len(s) /\ SubSeq(s, i, i + Len(old) - 1) = old
         THEN RemoveFrom(s, i + Len(old), old)
         ELSE At(s, i) \o RemoveFrom(s, i + 1, old)

remove(s, old) == RemoveFrom(s, 1, old)

\* for prefix in prefixes: text = text.replace(prefix, "").strip()
RECURSIVE StripPrefixes(_, _)
StripPrefixes(s, prefixes) ==
    IF prefixes = <<>> THEN s
    ELSE StripPrefixes(strip(remove(s, Head(prefixes))), Tail(prefixes))

(***************************************************************************)
(* Keyword lists                                                           *)
(***************************************************************************)
\* the math terms, the same list in the three classifiers
MathTerms ==
    {"calculate", "add", "sum", "plus", "subtract", "minus", "difference",
     "multiply", "product", "times", "divide", "quotient",
     "power", "exponent", "squared", "cubed"}

KnowledgeTerms ==
    {"research", "paper", "article", "study", "academic", "science",
     "scientific", "physics", "math", "computer science", "biology",
     "publication"}

ReasoningTerms ==
    {"explain", "why", "how", "reason", "analyze", "consider", "evaluate",
     "what is", "define", "meaning of"}

SearchTerms ==
    {"search", "find", "look up", "information about", "tell me about",
     "what do you know about"}

\* SimplifiedAgent's search terms
SimplifiedSearchTerms ==
    {"search", "find", "look up", "google", "information about",
     "tell me about"}

\* greetings answered with the capabilities text
Greetings == {"testing", "test", "hello", "hi"}

\* marks a text field that a dictionary or a feed entry does not carry
Absent == "<absent>"
\* marks a text field whose value is Python's None
None == "<None>"

\* the sequence of the members of seq that satisfy membership in keep
RECURSIVE SelectIn(_, _)
SelectIn(seq, keep) ==
    IF seq = <<>> THEN <<>>
    ELSE (IF Head(seq) \in keep THEN <<Head(seq)>> ELSE <<>>)
         \o SelectIn(Tail(seq), keep)

(***************************************************************************)
(* AdvancedAgent  (advanced_agent.py)                                      *)
(***************************************************************************)
\* the classifier with the reasoning terms tested before the math terms
Mutant_determine_query_type(query) ==
    LET query_lower == lower(query)
    IN  IF AnyTerm(query_lower, ReasoningTerms) THEN "reasoning"
        ELSE IF AnyTerm(query_lower, MathTerms) THEN "math"
        ELSE IF AnyTerm(query_lower, KnowledgeTerms) THEN "knowledge"
        ELSE IF AnyTerm(query_lower, SearchTerms) THEN "search"
        ELSE "reasoning"

AdvancedAgent_determine_query_type(query) ==
    LET query_lower == lower(query)
    IN  IF AnyTerm(query_lower, MathTerms) THEN "math"
        ELSE IF AnyTerm(query_lower, KnowledgeTerms) THEN "knowledge"
        ELSE IF AnyTerm(query_lower, ReasoningTerms) THEN "reasoning"
        ELSE IF AnyTerm(query_lower, SearchTerms) THEN "search"
        ELSE "reasoning"

AllOperations ==
    <<"addition", "subtraction", "multiplication", "division", "exponents">>

\* the operator groups of AdvancedAgent._parse_math_query
AdvancedOpTerms(op) ==
    CASE op = "addition" -> {"add", "sum", "plus", "+"}
      [] op = "subtraction" -> {"subtract", "minus", "difference", "-"}
      [] op = "multiplication" -> {"multiply", "product", "times", "*", "×"}
      [] op = "division" -> {"divide", "quotient", "/", "÷"}
      [] op = "exponents" -> {"power", "exponent", "^", "**", "squared", "cubed"}

\* the matches of -?\d+\.?\d* as numbers
RECURSIVE SignedFloatsFrom(_, _)
SignedFloatsFrom(s, i) ==
    IF i > Len(s) THEN <<>>
    ELSE IF IsDigit(At(s, i))
         THEN LET e == FloatMatchEnd(s, i)
                  x == float(SubSeq(s, i, e))
              IN  <<IF i > 1 /\ At(s, i - 1) = "-" THEN Sub(Rat(0, 1), x) ELSE x>>
                  \o SignedFloatsFrom(s, e + 1)
         ELSE SignedFloatsFrom(s, i + 1)

\* number extraction that reads a leading minus sign as the sign
Mutant_ExtractFloats(query) == SignedFloatsFrom(query, 1)

\* [float(num) for num in re.findall(r'\d+\.?\d*', query)]
ExtractFloats(query) ==
    LET found == findall_float(query)
    IN  [i \in 1..Len(found) |-> float(found[i])]

\* operator detection as an exclusive if/elif chain: the first group only
Mutant_parse_math_query(query) ==
    LET query_lower == lower(query)
        matched == SelectIn(AllOperations,
                            {op \in {"addition", "subtraction", "multiplication",
                                     "division", "exponents"} :
                                 AnyTerm(query_lower, AdvancedOpTerms(op))})
    IN  [operations |-> IF matched = <<>> THEN <<>> ELSE <<Head(matched)>>,
         numbers |-> ExtractFloats(query)]

AdvancedAgent_parse_math_query(query) ==
    LET query_lower == lower(query)
    IN  [operations |->
            SelectIn(AllOperations,
                     {op \in {"addition", "subtraction", "multiplication",
                              "division", "exponents"} :
                          AnyTerm(query_lower, AdvancedOpTerms(op))}),
         numbers |-> ExtractFloats(query)]

\* the first match of (\d+)\s+steps? : a digit run followed by whitespace
\* and "step"
StepMatches(query) ==
    {i \in 1..Len(query) :
        /\ IsDigit(At(query, i))
        /\ LET e == RunEnd(query, i, "d")
               rest == SubSeq(query, e + 1, Len(query))
               body == lstrip(rest)
           IN  /\ body # rest
               /\ StartsWith(body, "step")}

AdvancedAgent_parse_reasoning_query(query) ==
    [topic |-> query,
     steps |-> IF StepMatches(query) = {} THEN 3
               ELSE LET i == CHOOSE j \in StepMatches(query) :
                                 \A k \in StepMatches(query) : j <= k
                    IN  int(SubSeq(query, i, RunEnd(query, i, "d")))]

AdvancedAgent_parse_search_query(query) ==
    [search_term |->
        StripPrefixes(lower(query),
                      <<"search for", "search", "find", "look up",
                        "tell me about", "information about",
                        "what do you know about">>)]

AdvancedAgent_parse_knowledge_query(query) ==
    [topic |->
        StripPrefixes(lower(query),
                      <<"what is", "tell me about", "define", "explain",
                        "research on", "papers about">>),
     max_results |-> 3]

\* parse_query that, like the simplified agents, sets greetings apart
Mutant_parse_query(query) ==
    LET query_type == AdvancedAgent_determine_query_type(query)
    IN  [type |-> IF lower(query) \in Greetings THEN "general" ELSE query_type,
         text |-> query,
         fields |->
            CASE query_type = "math" -> AdvancedAgent_parse_math_query(query)
              [] query_type = "reasoning" ->
                    AdvancedAgent_parse_reasoning_query(query)
              [] query_type = "search" -> AdvancedAgent_parse_search_query(query)
              [] query_type = "knowledge" ->
                    AdvancedAgent_parse_knowledge_query(query)]

AdvancedAgent_parse_query(query) ==
    LET query_type == AdvancedAgent_determine_query_type(query)
    IN  [type |-> query_type,
         text |-> query,
         fields |->
            CASE query_type = "math" -> AdvancedAgent_parse_math_query(query)
              [] query_type = "reasoning" ->
                    AdvancedAgent_parse_reasoning_query(query)
              [] query_type = "search" -> AdvancedAgent_parse_search_query(query)
              [] query_type = "knowledge" ->
                    AdvancedAgent_parse_knowledge_query(query)]

\* the gofannon math tools (Addition, Subtraction, Multiplication, Division,
\* Exponents): fn returns the arithmetic result
MathTool(op, num1, num2) ==
    CASE op = "addition" -> Add(num1, num2)
      [] op = "subtraction" -> Sub(num1, num2)
      [] op = "multiplication" -> Mul(num1, num2)
      [] op = "division" -> Div(num1, num2)
      [] op = "exponents" -> Power(num1, num2)

\* the loop body without the test for a zero divisor: the division tool is
\* called and raises ZeroDivisionError, which the loop catches
Mutant_math_step(op, num1, num2, tools_fail) ==
    IF tools_fail \/ (op = "division" /\ IsZero(num2))
    THEN [value |-> [text |-> "Error: {str(e)}"], called |-> TRUE]
    ELSE [value |-> MathTool(op, num1, num2), called |-> TRUE]

\* one pass of the loop of execute_math: the value stored under results[op]
\* (a number, or [text |-> the error string]) and whether the tool was
\* called.  tools_fail: the tool call raises.
AdvancedAgent_math_step(op, num1, num2, tools_fail) ==
    IF op = "division" /\ IsZero(num2)
    THEN [value |-> [text |-> "Error: Division by zero"], called |-> FALSE]
    ELSE IF tools_fail
         THEN [value |-> [text |-> "Error: {str(e)}"], called |-> TRUE]
         ELSE [value |-> MathTool(op, num1, num2), called |-> TRUE]

AdvancedAgent_execute_math(parsed_query, tools_fail) ==
    LET operations == parsed_query.operations
        numbers == parsed_query.numbers
    IN  IF Len(numbers) < 2
        THEN [error |-> "Need at least two numbers for calculations",
              results |-> <<>>, calls |-> <<>>]
        ELSE LET step(i) == AdvancedAgent_math_step(operations[i], numbers[1],
                                                    numbers[2], tools_fail)
             IN  [error |-> Absent,
                  results |-> [i \in 1..Len(operations) |->
                                  [op |-> operations[i], value |-> step(i).value]],
                  calls |-> SelectIn([i \in 1..Len(operations) |->
                                        IF step(i).called
                                        THEN "tool:" \o operations[i]
                                        ELSE "skip"],
                                     {"tool:" \o op : op \in
                                        {"addition", "subtraction",
                                         "multiplication", "division",
                                         "exponents"}})]

MathLabel(op) ==
    CASE op = "addition" -> "Addition result"
      [] op = "subtraction" -> "Subtraction result"
      [] op = "multiplication" -> "Multiplication result"
      [] op = "division" -> "Division result"
      [] op = "exponents" -> "Exponentiation result"

\* the formatter without the test for the 'error' key
Mutant_format_math_response(query, results) ==
    IF results.results = <<>>
    THEN [tmpl |-> "I couldn't identify any math operations to perform in your query."]
    ELSE [tmpl |-> "For your query: '{query}'",
          query |-> query,
          lines |-> [i \in 1..Len(results.results) |->
                        [label |-> MathLabel(results.results[i].op),
                         value |-> results.results[i].value]]]

AdvancedAgent_format_math_response(query, results) ==
    IF results.error # Absent
    THEN [tmpl |-> "I couldn't process your math query: {error}",
          error |-> results.error]
    ELSE IF results.results = <<>>
    THEN [tmpl |-> "I couldn't identify any math operations to perform in your query."]
    ELSE [tmpl |-> "For your query: '{query}'",
          query |-> query,
          lines |-> [i \in 1..Len(results.results) |->
                        [label |-> MathLabel(results.results[i].op),
                         value |-> results.results[i].value]]]

\* execute_search that simulates whatever the credentials
Mutant_execute_search(parsed_query, available_search) ==
    [error |-> Absent,
     has_search_results |-> TRUE,
     search_results |->
        <<[title |-> "Simulated result 1 for '{search_term}'",
           search_term |-> parsed_query.search_term]>>,
     simulation_note |->
        "These are simulated results. Set up API keys for real search functionality."]

AdvancedAgent_execute_search(parsed_query, available_search) ==
    IF available_search
    THEN [error |-> "Real search API call not implemented in this demo",
          has_search_results |-> FALSE, search_results |-> <<>>,
          simulation_note |-> Absent]
    ELSE [error |-> Absent,
          has_search_results |-> TRUE,
          search_results |->
             <<[title |-> "Simulated result 1 for '{search_term}'",
                search_term |-> parsed_query.search_term],
               [title |-> "Simulated result 2 for '{search_term}'",
                search_term |-> parsed_query.search_term],
               [title |-> "Simulated result 3 for '{search_term}'",
                search_term |-> parsed_query.search_term]>>,
          simulation_note |->
             "These are simulated results. Set up API keys for real search functionality."]

AdvancedAgent_format_search_response(query, results) ==
    IF results.error # Absent
    THEN [tmpl |-> "I couldn't process your search query: {error}",
          error |-> results.error]
    ELSE IF ~results.has_search_results
    THEN [tmpl |-> "I couldn't find any search results for your query."]
    ELSE [tmpl |-> "Search results for: '{query}'",
          query |-> query,
          results |-> results.search_results,
          note |-> results.simulation_note]

(***************************************************************************)
(* The academic backend.  The reply of the ArXiv tool is the parsed shape  *)
(* of its XML text: an element that is missing is Absent, an element with  *)
(* no text (<summary/>) has the text None, as in ElementTree.              *)
(***************************************************************************)
FeedEntry(title, summary) ==
    [title |-> title, authors |-> <<"A. Author">>, summary |-> summary,
     id |-> "http://arxiv.org/abs/1", published |-> Absent]

Feed(total, entries) == [kind |-> "feed", total |-> total, entries |-> entries]

\* the tool call raises
ReplyRaise == [kind |-> "raise"]

\* the endpoint accepts the request and never answers
ReplyHang == [kind |-> "hang"]
\* the tool returns no body
ReplyNoBody == [kind |-> "none"]
\* the body is not XML
ReplyGarbage == [kind |-> "garbage"]

ArxivReplies ==
    {ReplyRaise, ReplyNoBody, ReplyGarbage,
     Feed(Absent, <<>>),
     Feed("x", <<FeedEntry("Deep Learning", "A study.")>>),
     Feed("1", <<FeedEntry("Deep Learning", "A study.")>>),
     Feed("1", <<FeedEntry("Deep Learning", None)>>),
     Feed("1", <<FeedEntry("Deep Learning", Absent)>>),
     Feed("1", <<FeedEntry(None, "A study.")>>),
     Feed("2", <<FeedEntry(Absent, "A study."),
                 FeedEntry("Deep Learning", "A study.")>>)}

IsDigitString(t) ==
    /\ t # ""
    /\ \A i \in 1..Len(t) : IsDigit(At(t, i))

\* the entry dictionary built by the loop of _parse_arxiv_response: a key is
\* set only when the element exists; authors keeps the names with text
AdvancedAgent_parse_entry(entry) ==
    [title |-> entry.title,
     authors |-> entry.authors,
     summary |-> entry.summary,
     link |-> entry.id,
     published |-> entry.published]

\* outcome "ok": the dictionary returned; "error": the dictionary with
\* 'error' and 'xml' returned by the handler; "raise": the handler itself
\* raised (slicing None)
AdvancedAgent_parse_arxiv_response(xml_text) ==
    IF xml_text.kind = "none"
    THEN [outcome |-> "raise", error |-> "TypeError"]
    ELSE IF xml_text.kind = "garbage"
    THEN [outcome |-> "error", error |-> "ParseError"]
    ELSE IF xml_text.total # Absent /\ ~IsDigitString(xml_text.total)
    THEN [outcome |-> "error", error |-> "ValueError"]
    ELSE [outcome |-> "ok", error |-> Absent,
          total_results |-> IF xml_text.total = Absent THEN 0
                            ELSE int(xml_text.total),
          entries |-> [i \in 1..Len(xml_text.entries) |->
                          AdvancedAgent_parse_entry(xml_text.entries[i])]]

\* the payload of execute_knowledge: error is Absent or the error text (the
\* error payload has no other key)
AdvancedAgent_execute_knowledge(parsed_query, reply) ==
    IF reply.kind = "raise"
    THEN [error |-> "{str(e)}", total_results |-> 0, entries |-> <<>>]
    ELSE LET parsed == AdvancedAgent_parse_arxiv_response(reply)
         IN  IF parsed.outcome = "ok"
             THEN [error |-> Absent, total_results |-> parsed.total_results,
                   entries |-> parsed.entries]
             ELSE [error |-> parsed.error, total_results |-> 0,
                   entries |-> <<>>]

\* str(value) of an optional text inside an f-string
Str(t) == IF t = None THEN "None" ELSE t

\* entry.get(key, default)
Get(t, default) == IF t = Absent THEN default ELSE t

\* ', '.join(names)
RECURSIVE JoinWith(_, _)
JoinWith(names, sep) ==
    IF names = <<>> THEN ""
    ELSE IF Len(names) = 1 THEN names[1]
    ELSE names[1] \o sep \o JoinWith(Tail(names), sep)

AdvancedAgent_get_reasoning_action(query) ==
    IF AnyTerm(lower(query), {"calculate", "add", "subtract", "multiply", "divide"})
    THEN "perform the mathematical operation implied in the query"
    ELSE IF AnyTerm(lower(query), {"explain", "why", "how", "what is"})
    THEN "provide an explanation about the concept mentioned in the query"
    ELSE IF AnyTerm(lower(query), {"find", "search", "look up"})
    THEN "search for relevant information about the topic"
    ELSE "analyze the query to determine the best approach to answer it"

AdvancedAgent_get_reasoning_conclusion(query) ==
    IF AnyTerm(lower(query), {"calculate", "add", "subtract", "multiply", "divide"})
    THEN "I would provide the mathematical result after performing the calculation"
    ELSE IF AnyTerm(lower(query), {"explain", "why", "how", "what is"})
    THEN "I would provide a clear explanation of the concept, with relevant examples if helpful"
    ELSE IF AnyTerm(lower(query), {"find", "search", "look up"})
    THEN "I would present the most relevant information found during the search"
    ELSE "I would provide a comprehensive answer addressing all aspects of the query"

\* the text of the capabilities answer of AdvancedAgent and
\* SimplifiedAdvancedAgent
CapabilitiesText == [tmpl |-> "I can help you with various types of questions: (math, research papers, general knowledge)"]

\* the suggestion text for a query of at most two words
ShortQueryText(query) ==
    [tmpl |-> "I notice you've asked about \"{query}\". I can provide more information if you ask a more specific question.",
     query |-> query]

\* _simulate_reasoning with the special cases tested before the length
Mutant_SimulateBranch(query) ==
    LET query_lower == lower(query)
    IN  IF query_lower \in Greetings THEN "greeting"
        ELSE IF Contains(query_lower, "egg") THEN "egg"
        ELSE IF lower(query) = "gear" THEN "gear"
        ELSE IF Len(split(query_lower)) <= 2 THEN "short"
        ELSE "steps"

\* the return statement of _simulate_reasoning a query ends in
SimulateBranch(query) ==
    LET query_lower == lower(query)
    IN  IF query_lower \in Greetings THEN "greeting"
        ELSE IF Len(split(query_lower)) <= 2 THEN "short"
        ELSE IF Contains(query_lower, "egg") THEN "egg"
        ELSE IF lower(query) = "gear" THEN "gear"
        ELSE "steps"

AdvancedAgent_simulate_reasoning(query, steps, knowledge_base) ==
    LET branch == SimulateBranch(query)
    IN  CASE branch = "greeting" -> CapabilitiesText
          [] branch = "short" -> ShortQueryText(query)
          [] branch = "egg" -> [tmpl |-> "I'll explain what an egg is:"]
          [] branch = "gear" -> CapabilitiesText
          [] branch = "steps" ->
             [tmpl |-> "{base_info}I'll break down my thought process for answering: '{query}'",
              base_info |-> IF knowledge_base # ""
                            THEN "Based on available information: " \o knowledge_base
                            ELSE "",
              query |-> query,
              action |-> AdvancedAgent_get_reasoning_action(query),
              conclusion |-> AdvancedAgent_get_reasoning_conclusion(query)]

\* the call of knowledge_tools["arxiv"].fn(query=topic, max_results=...)
ArxivCall(max_results) ==
    "arxiv:max_results=" \o SubSeq(Digits, max_results + 1, max_results + 1)

\* execute_reasoning that asks the academic backend only when the simulator
\* will use the answer
Mutant_execute_reasoning(parsed_query, reply, cot_fails, available_reasoning) ==
    LET topic == parsed_query.topic
        steps == parsed_query.steps
        short == Len(split(lower(topic))) <= 2
        arxiv_results ==
            AdvancedAgent_execute_knowledge([topic |-> topic, max_results |-> 1],
                                            reply)
        knowledge_base ==
            IF ~short /\ arxiv_results.error = Absent /\ arxiv_results.entries # <<>>
            THEN "Based on scientific literature: "
                 \o Str(Get(arxiv_results.entries[1].summary, ""))
            ELSE ""
        asked == IF short THEN <<>> ELSE <<ArxivCall(1)>>
    IN  IF available_reasoning /\ ~cot_fails
        THEN [reasoning |-> [tmpl |-> "{SequentialCoT result}"],
              calls |-> asked \o <<"tool:sequential_cot">>]
        ELSE [reasoning |->
                 AdvancedAgent_simulate_reasoning(topic, steps, knowledge_base),
              calls |-> asked
                        \o (IF available_reasoning THEN <<"tool:sequential_cot">>
                                                   ELSE <<>>)
                        \o <<"simulate_reasoning">>]

\* cot_fails: the remote SequentialCoT call raises
AdvancedAgent_execute_reasoning(parsed_query, reply, cot_fails, available_reasoning) ==
    LET topic == parsed_query.topic
        steps == parsed_query.steps
        arxiv_results ==
            AdvancedAgent_execute_knowledge([topic |-> topic, max_results |-> 1],
                                            reply)
        knowledge_base ==
            IF arxiv_results.error = Absent /\ arxiv_results.entries # <<>>
            THEN "Based on scientific literature: "
                 \o Str(Get(arxiv_results.entries[1].summary, ""))
            ELSE ""
    IN  IF available_reasoning /\ ~cot_fails
        THEN [reasoning |-> [tmpl |-> "{SequentialCoT result}"],
              calls |-> <<ArxivCall(1), "tool:sequential_cot">>]
        ELSE [reasoning |->
                 AdvancedAgent_simulate_reasoning(topic, steps, knowledge_base),
              calls |-> <<ArxivCall(1)>>
                        \o (IF available_reasoning THEN <<"tool:sequential_cot">>
                                                   ELSE <<>>)
                        \o <<"simulate_reasoning">>]

\* the results dictionary of execute_reasoning
ReasoningResults(reasoning) ==
    [error |-> Absent, has_reasoning |-> TRUE, reasoning |-> reasoning]

\* format_reasoning_response without the test for the error key
Mutant_format_reasoning_response(query, results, available_reasoning) ==
    IF ~results.has_reasoning
    THEN [tmpl |-> "I couldn't generate any reasoning for your query."]
    ELSE [tmpl |-> "Reasoning for your query: '{query}'",
          query |-> query,
          reasoning |-> results.reasoning,
          note |-> IF ~available_reasoning
                   THEN "(Note: This is a simulated response. Set up an OpenAI API key for real reasoning.)"
                   ELSE Absent]

AdvancedAgent_format_reasoning_response(query, results, available_reasoning) ==
    IF results.error # Absent
    THEN [tmpl |-> "I couldn't process your reasoning query: {error}",
          error |-> results.error]
    ELSE IF ~results.has_reasoning
    THEN [tmpl |-> "I couldn't generate any reasoning for your query."]
    ELSE [tmpl |-> "Reasoning for your query: '{query}'",
          query |-> query,
          reasoning |-> results.reasoning,
          note |-> IF ~available_reasoning
                   THEN "(Note: This is a simulated response. Set up an OpenAI API key for real reasoning.)"
                   ELSE Absent]

\* the length limit of a displayed summary
SummaryLimit == 300

\* the lines of one entry in format_knowledge_response
AdvancedAgent_format_entry(entry) ==
    LET summary == Get(entry.summary, "")
    IN  [title |-> Str(Get(entry.title, "Untitled paper")),
         authors |-> JoinWith(entry.authors, ", "),
         summary |-> IF Len(summary) > SummaryLimit
                     THEN SubSeq(summary, 1, SummaryLimit) \o "..."
                     ELSE summary,
         link |-> entry.link]

\* entries[:3]
FirstThree(entries) == SubSeq(entries, 1, IF Len(entries) < 3 THEN Len(entries) ELSE 3)

\* raised: the exception that leaves the formatter ("none" when it returns);
\* len(summary) raises TypeError when an entry's summary is None
AdvancedAgent_format_knowledge_response(query, results, available_reasoning) ==
    IF results.error # Absent
    THEN [raised |-> "none",
          response |->
             AdvancedAgent_format_reasoning_response(
                 query,
                 ReasoningResults(AdvancedAgent_simulate_reasoning(query, 3, "")),
                 available_reasoning),
          calls |-> <<"simulate_reasoning">>]
    ELSE IF results.entries = <<>>
    THEN [raised |-> "none",
          response |-> [tmpl |-> "I couldn't find specific research articles about '{query}'. Would you like me to try a different approach?",
                        query |-> query],
          calls |-> <<>>]
    ELSE LET shown == FirstThree(results.entries)
         IN  IF \E i \in 1..Len(shown) : shown[i].summary = None
             THEN [raised |-> "TypeError", response |-> [tmpl |-> Absent],
                   calls |-> <<>>]
             ELSE [raised |-> "none",
                   response |->
                      [tmpl |-> "Here's what I found about '{query}' from scientific research:",
                       query |-> query,
                       items |-> [i \in 1..Len(shown) |->
                                     AdvancedAgent_format_entry(shown[i])],
                       total |-> results.total_results],
                   calls |-> <<>>]

\* what a request leaves behind when nothing was extracted
NoResponse == [tmpl |-> Absent]

\* AdvancedAgent.run.  env: the behaviour of the backends during the request
\* (tools_fail, arxiv, cot_fails); config: the flags set by __init__.
\* Result: the response returned (or the exception that escapes), the calls
\* made in order, and the parsed query.
AdvancedAgent_run(query, env, config) ==
    LET parsed_query == AdvancedAgent_parse_query(query)
        query_type == parsed_query.type
        available_reasoning == config.has_openai_key
        available_search == config.has_google_search
    IN  CASE query_type = "math" ->
               LET results == AdvancedAgent_execute_math(parsed_query.fields,
                                                         env.tools_fail)
               IN  [response |-> AdvancedAgent_format_math_response(query, results),
                    raised |-> "none",
                    calls |-> <<"determine_query_type", "parse_math_query",
                                "execute_math">> \o results.calls,
                    parsed |-> [type |-> query_type,
                                operations |-> parsed_query.fields.operations,
                                numbers |-> parsed_query.fields.numbers]]
          [] query_type = "reasoning" ->
               LET results == AdvancedAgent_execute_reasoning(
                                  parsed_query.fields, env.arxiv, env.cot_fails,
                                  available_reasoning)
               IN  [response |-> AdvancedAgent_format_reasoning_response(
                                     query, ReasoningResults(results.reasoning),
                                     available_reasoning),
                    raised |-> "none",
                    calls |-> <<"determine_query_type", "parse_reasoning_query",
                                "execute_reasoning">> \o results.calls,
                    parsed |-> [type |-> query_type, operations |-> <<>>,
                                numbers |-> <<>>]]
          [] query_type = "search" ->
               LET results == AdvancedAgent_execute_search(parsed_query.fields,
                                                           available_search)
               IN  [response |-> AdvancedAgent_format_search_response(query, results),
                    raised |-> "none",
                    calls |-> <<"determine_query_type", "parse_search_query",
                                "execute_search">>,
                    parsed |-> [type |-> query_type, operations |-> <<>>,
                                numbers |-> <<>>]]
          [] query_type = "knowledge" ->
               LET parsed_knowledge == AdvancedAgent_parse_knowledge_query(query)
                   results == AdvancedAgent_execute_knowledge(parsed_knowledge,
                                                              env.arxiv)
                   formatted == AdvancedAgent_format_knowledge_response(
                                    query, results, available_reasoning)
               IN  [response |-> formatted.response,
                    raised |-> formatted.raised,
                    calls |-> <<"determine_query_type", "parse_knowledge_query",
                                "execute_knowledge",
                                ArxivCall(parsed_knowledge.max_results)>>
                             \o formatted.calls,
                    parsed |-> [type |-> query_type, operations |-> <<>>,
                                numbers |-> <<>>]]
          [] OTHER ->
               [response |-> [tmpl |-> "I'm not sure how to process this type of query."],
                raised |-> "none",
                calls |-> <<"determine_query_type">>,
                parsed |-> [type |-> query_type, operations |-> <<>>,
                            numbers |-> <<>>]]

(***************************************************************************)
(* BasicAgent  (my_agent.py)                                               *)
(***************************************************************************)
\* the operator groups of BasicAgent.parse_query
BasicOpTerms(op) ==
    CASE op = "addition" -> {"add", "sum", "plus", "+"}
      [] op = "subtraction" -> {"subtract", "minus", "difference", "-"}
      [] op = "multiplication" -> {"multiply", "product", "times", "*", "×"}
      [] op = "division" -> {"divide", "quotient", "/", "÷"}
      [] op = "exponents" -> {"power", "exponent", "^", "**", "raised"}

BasicAgent_parse_query(query) ==
    LET query_lower == lower(query)
    IN  [operations |->
            SelectIn(AllOperations,
                     {op \in {"addition", "subtraction", "multiplication",
                              "division", "exponents"} :
                          AnyTerm(query_lower, BasicOpTerms(op))}),
         numbers |-> ExtractFloats(query)]

\* one pass of the loop of execute_operations
BasicAgent_math_step(op, num1, num2, tools_fail) ==
    IF op = "division" /\ IsZero(num2)
    THEN [value |-> [text |-> "Error: Division by zero"], called |-> FALSE]
    ELSE IF tools_fail
         THEN [value |-> [text |-> "Error: {str(e)}"], called |-> TRUE]
         ELSE [value |-> MathTool(op, num1, num2), called |-> TRUE]

BasicAgent_execute_operations(parsed_query, tools_fail) ==
    LET operations == parsed_query.operations
        numbers == parsed_query.numbers
    IN  IF Len(numbers) < 2
        THEN [error |-> "Need at least two numbers for calculations",
              results |-> <<>>, calls |-> <<>>]
        ELSE LET step(i) == BasicAgent_math_step(operations[i], numbers[1],
                                                 numbers[2], tools_fail)
             IN  [error |-> Absent,
                  results |-> [i \in 1..Len(operations) |->
                                  [op |-> operations[i], value |-> step(i).value]],
                  calls |-> SelectIn([i \in 1..Len(operations) |->
                                        IF step(i).called
                                        THEN "tool:" \o operations[i]
                                        ELSE "skip"],
                                     {"tool:" \o op : op \in
                                        {"addition", "subtraction",
                                         "multiplication", "division",
                                         "exponents"}})]

BasicLabel(op) ==
    CASE op = "addition" -> "Addition: {num1} + {num2} = {result}"
      [] op = "subtraction" -> "Subtraction: {num1} - {num2} = {result}"
      [] op = "multiplication" -> "Multiplication: {num1} × {num2} = {result}"
      [] op = "division" -> "Division: {num1} ÷ {num2} = {result}"
      [] op = "exponents" -> "Exponentiation: {num1}^{num2} = {result}"

BasicAgent_format_response(query, parsed_query, results) ==
    IF results.error # Absent
    THEN [tmpl |-> "I couldn't process your query: {error}",
          error |-> results.error]
    ELSE IF results.results = <<>>
    THEN [tmpl |-> "I couldn't identify any math operations to perform. Try asking about addition, subtraction, multiplication, division, or exponents."]
    ELSE [tmpl |-> "Based on your query: '{query}'",
          query |-> query,
          lines |-> [i \in 1..Len(results.results) |->
                        [label |-> BasicLabel(results.results[i].op),
                         num1 |-> parsed_query.numbers[1],
                         num2 |-> parsed_query.numbers[2],
                         value |-> results.results[i].value]]]

BasicAgent_run(query, env) ==
    LET parsed_query == BasicAgent_parse_query(query)
        results == BasicAgent_execute_operations(parsed_query, env.tools_fail)
    IN  [response |-> BasicAgent_format_response(query, parsed_query, results),
         raised |-> "none",
         calls |-> <<"parse_query", "execute_operations">> \o results.calls,
         parsed |-> [type |-> Absent,
                     operations |-> parsed_query.operations,
                     numbers |-> parsed_query.numbers]]

(***************************************************************************)
(* SimplifiedAgent  (simplified_agent.py)                                  *)
(***************************************************************************)
SimplifiedAgent_determine_query_type(query) ==
    LET query_lower == lower(query)
    IN  IF AnyTerm(query_lower, MathTerms) THEN "math"
        ELSE IF AnyTerm(query_lower, SimplifiedSearchTerms) THEN "search"
        ELSE "general"

\* [int(num) for num in re.findall(r'\d+', query)], as whole numbers
ExtractInts(query) ==
    LET found == findall_digits(query)
    IN  [i \in 1..Len(found) |-> Rat(int(found[i]), 1)]

\* the operation chosen by the if/elif chain of execute_math ("none" when no
\* group matches)
SimplifiedAgent_operation(query) ==
    LET query_lower == lower(query)
    IN  IF AnyTerm(query_lower, {"add", "sum", "plus"}) THEN "addition"
        ELSE IF AnyTerm(query_lower, {"subtract", "minus", "difference"})
        THEN "subtraction"
        ELSE IF AnyTerm(query_lower, {"multiply", "product", "times"})
        THEN "multiplication"
        ELSE IF AnyTerm(query_lower, {"divide", "quotient"}) THEN "division"
        ELSE IF AnyTerm(query_lower, {"power", "exponent", "squared", "cubed"})
        THEN "exponentiation"
        ELSE "none"

\* num1 <operator> num2 on Python ints (/ gives a float, ** an int)
Evaluate(operation, num1, num2) ==
    CASE operation = "addition" -> Add(num1, num2)
      [] operation = "subtraction" -> Sub(num1, num2)
      [] operation = "multiplication" -> Mul(num1, num2)
      [] operation = "division" -> Div(num1, num2)
      [] operation = "exponentiation" -> Power(num1, num2)

SimplifiedAgent_execute_math(query) ==
    LET numbers == ExtractInts(query)
        operation == SimplifiedAgent_operation(query)
    IN  IF Len(numbers) < 2
        THEN [response |-> [tmpl |-> "I need at least two numbers to perform a calculation."],
              operations |-> <<>>, numbers |-> numbers, calls |-> <<>>]
        ELSE IF operation = "none"
        THEN [response |-> [tmpl |-> "I couldn't determine the math operation to perform."],
              operations |-> <<>>, numbers |-> numbers, calls |-> <<>>]
        ELSE IF operation = "division" /\ IsZero(numbers[2])
        THEN [response |-> [tmpl |-> "Cannot divide by zero."],
              operations |-> <<operation>>, numbers |-> numbers, calls |-> <<>>]
        ELSE [response |-> [tmpl |-> "The result of {operation} is: {result}",
                            operation |-> operation,
                            value |-> Evaluate(operation, numbers[1], numbers[2])],
              operations |-> <<operation>>, numbers |-> numbers,
              calls |-> <<"op:" \o operation>>]

\* the reply of the web-search endpoint
GoogleRaise == [kind |-> "raise"]
GoogleNoItems == [kind |-> "json", has_items |-> FALSE, items |-> <<>>]
GoogleItems(items) == [kind |-> "json", has_items |-> TRUE, items |-> items]

GoogleReplies ==
    {GoogleRaise, GoogleNoItems, GoogleItems(<<>>),
     GoogleItems(<<[title |-> "Deep Learning", link |-> "http://example.org/1",
                    snippet |-> "Cited by 12"]>>)}

SimplifiedAgent_provide_simulated_search_results(query) ==
    [tmpl |-> "Here are some search results for '{query}':",
     query |-> query,
     note |-> "Note: These are simulated search results. For actual web search results, please configure the Google Search API keys in your environment variables."]

SimplifiedAgent_execute_search(query, google, has_google_search) ==
    LET search_query == strip(remove(remove(remove(query, "search"), "find"),
                                     "look up"))
    IN  IF has_google_search
        THEN IF google.kind = "raise"
             THEN [response |->
                      SimplifiedAgent_provide_simulated_search_results(search_query),
                   calls |-> <<"google", "simulated_search">>]
             ELSE IF ~google.has_items
             THEN [response |-> [tmpl |-> "No results found for '{search_query}'.",
                                 query |-> search_query],
                   calls |-> <<"google">>]
             ELSE [response |-> [tmpl |-> "Here are the top search results:",
                                 results |-> FirstThree(google.items)],
                   calls |-> <<"google">>]
        ELSE [response |->
                 SimplifiedAgent_provide_simulated_search_results(search_query),
              calls |-> <<"simulated_search">>]

SimplifiedAgent_execute_general(query) ==
    LET query_lower == lower(query)
    IN  IF query_lower \in Greetings
        THEN [tmpl |-> "I can help you with various types of questions: (math, search)"]
        ELSE IF Len(split(query_lower)) <= 2
        THEN [tmpl |-> "I notice you've asked about \"{query}\". I can provide more information if you ask a more specific question. (math, search)",
              query |-> query]
        ELSE [tmpl |-> "I received your question: '{query}'. This is a simplified version of the agent that only handles math and search queries.",
              query |-> query]

SimplifiedAgent_process_query(query, env, config) ==
    LET query_type == SimplifiedAgent_determine_query_type(query)
    IN  IF query_type = "math"
        THEN LET r == SimplifiedAgent_execute_math(query)
             IN  [response |-> r.response, raised |-> "none",
                  calls |-> <<"determine_query_type", "execute_math">> \o r.calls,
                  parsed |-> [type |-> query_type, operations |-> r.operations,
                              numbers |-> r.numbers]]
        ELSE IF query_type = "search"
        THEN LET r == SimplifiedAgent_execute_search(query, env.google,
                                                     config.has_google_search)
             IN  [response |-> r.response, raised |-> "none",
                  calls |-> <<"determine_query_type", "execute_search">> \o r.calls,
                  parsed |-> [type |-> query_type, operations |-> <<>>,
                              numbers |-> <<>>]]
        ELSE [response |-> SimplifiedAgent_execute_general(query),
              raised |-> "none",
              calls |-> <<"determine_query_type", "execute_general">>,
              parsed |-> [type |-> query_type, operations |-> <<>>,
                          numbers |-> <<>>]]

(***************************************************************************)
(* SimplifiedAdvancedAgent  (simplified_advanced_agent.py)                 *)
(***************************************************************************)
SimplifiedAdvancedAgent_determine_query_type(query) ==
    LET query_lower == lower(query)
    IN  IF AnyTerm(query_lower, MathTerms) THEN "math"
        ELSE IF AnyTerm(query_lower, KnowledgeTerms) THEN "knowledge"
        ELSE IF AnyTerm(query_lower, ReasoningTerms) THEN "reasoning"
        ELSE IF AnyTerm(query_lower, SearchTerms) THEN "search"
        ELSE "reasoning"

\* the operation chosen by the if/elif chain of _process_math_query
SimplifiedAdvancedAgent_operation(query) ==
    LET query_lower == lower(query)
    IN  IF AnyTerm(query_lower, {"add", "sum", "plus", "+"}) THEN "addition"
        ELSE IF AnyTerm(query_lower, {"subtract", "minus", "difference", "-"})
        THEN "subtraction"
        ELSE IF AnyTerm(query_lower, {"multiply", "product", "times", "*", "x"})
        THEN "multiplication"
        ELSE IF AnyTerm(query_lower, {"divide", "quotient", "/"}) THEN "division"
        ELSE "none"

SimplifiedAdvancedAgent_process_math_query(query) ==
    LET found == findall_digits(query)
        numbers == ExtractInts(query)
        operation == SimplifiedAdvancedAgent_operation(query)
    IN  IF Len(numbers) < 2
        THEN [response |-> [tmpl |-> "I need at least two numbers to perform a calculation."],
              operations |-> <<>>, numbers |-> numbers, calls |-> <<>>]
        ELSE IF operation = "none"
        THEN [response |-> [tmpl |-> "I'm not sure what mathematical operation you want me to perform."],
              operations |-> <<>>, numbers |-> numbers, calls |-> <<>>]
        ELSE IF operation = "division" /\ IsZero(numbers[2])
        THEN [response |-> [tmpl |-> "I cannot divide by zero."],
              operations |-> <<operation>>, numbers |-> numbers, calls |-> <<>>]
        ELSE [response |-> [tmpl |-> "The result of {numbers[0]} {operation} {numbers[1]} is {result}.",
                            num1 |-> found[1],
                            operation |-> operation,
                            num2 |-> found[2],
                            value |-> Evaluate(operation, numbers[1], numbers[2])],
              operations |-> <<operation>>, numbers |-> numbers,
              calls |-> <<"op:" \o operation>>]

SimplifiedAdvancedAgent_process_search_query(query) ==
    [tmpl |-> "Here are some search results for \"{search_term}\": ... To view any of these results, please ask for more information about a specific result.",
     query |-> strip(remove(remove(remove(lower(query), "search"), "find"),
                            "look up"))]

SimplifiedAdvancedAgent_process_knowledge_query(query) ==
    [tmpl |-> "Here are some research papers about \"{topic}\":",
     query |-> StripPrefixes(lower(query),
                             <<"what is", "tell me about", "define", "explain",
                               "research on", "papers about">>)]

SimplifiedAdvancedAgent_process_reasoning_query(query) ==
    [tmpl |-> "To answer your question about \"{query}\", I would consider the following:",
     query |-> query]

SimplifiedAdvancedAgent_run(query) ==
    LET query_lower == lower(query)
        unparsed == [type |-> Absent, operations |-> <<>>, numbers |-> <<>>]
    IN  IF query_lower \in Greetings
        THEN [response |-> CapabilitiesText, raised |-> "none", calls |-> <<>>,
              parsed |-> unparsed]
        ELSE IF Len(split(query_lower)) <= 2
        THEN [response |-> ShortQueryText(query), raised |-> "none",
              calls |-> <<>>, parsed |-> unparsed]
        ELSE LET query_type == SimplifiedAdvancedAgent_determine_query_type(query)
                 typed == [type |-> query_type, operations |-> <<>>,
                           numbers |-> <<>>]
             IN  CASE query_type = "math" ->
                        LET r == SimplifiedAdvancedAgent_process_math_query(query)
                        IN  [response |-> r.response, raised |-> "none",
                             calls |-> <<"determine_query_type",
                                         "process_math_query">> \o r.calls,
                             parsed |-> [type |-> query_type,
                                         operations |-> r.operations,
                                         numbers |-> r.numbers]]
                   [] query_type = "search" ->
                        [response |->
                            SimplifiedAdvancedAgent_process_search_query(query),
                         raised |-> "none",
                         calls |-> <<"determine_query_type",
                                     "process_search_query">>,
                         parsed |-> typed]
                   [] query_type = "knowledge" ->
                        [response |->
                            SimplifiedAdvancedAgent_process_knowledge_query(query),
                         raised |-> "none",
                         calls |-> <<"determine_query_type",
                                     "process_knowledge_query">>,
                         parsed |-> typed]
                   [] OTHER ->
                        [response |->
                            SimplifiedAdvancedAgent_process_reasoning_query(query),
                         raised |-> "none",
                         calls |-> <<"determine_query_type",
                                     "process_reasoning_query">>,
                         parsed |-> typed]

(***************************************************************************)
(* EnhancedArxivSearch  (enhanced_arxiv.py)                                *)
(***************************************************************************)
\* set(re.findall(r'\w+', text.lower()))
WordSet(text) ==
    LET found == findall_words(lower(text))
    IN  {found[i] : i \in 1..Len(found)}

Max(a, b) == IF a >= b THEN a ELSE b

\* the score divided by the size of the first word set
Mutant_similarity_score_first(text1, text2) ==
    LET words1 == WordSet(text1)
        words2 == WordSet(text2)
    IN  IF words1 = {} \/ words2 = {}
        THEN Rat(0, 1)
        ELSE Rat(Cardinality(words1 \cap words2), Cardinality(words1))

\* the score with the word lists not reduced to sets
Mutant_similarity_score_lists(text1, text2) ==
    LET words1 == findall_words(lower(text1))
        words2 == findall_words(lower(text2))
        common == {words1[i] : i \in 1..Len(words1)}
                      \cap {words2[i] : i \in 1..Len(words2)}
    IN  IF words1 = <<>> \/ words2 = <<>>
        THEN Rat(0, 1)
        ELSE Rat(Cardinality(common), Max(Len(words1), Len(words2)))

EnhancedArxivSearch_similarity_score(text1, text2) ==
    LET words1 == WordSet(text1)
        words2 == WordSet(text2)
    IN  IF words1 = {} \/ words2 = {}
        THEN Rat(0, 1)
        ELSE Rat(Cardinality(words1 \cap words2),
                 Max(Cardinality(words1), Cardinality(words2)))

\* an entry element of the feed, with its category terms and pdf link
ArxivEntry(title, authors, summary, categories, pdf) ==
    [title |-> title, authors |-> authors, summary |-> summary,
     id |-> "http://arxiv.org/abs/2401.00001", pdf |-> pdf,
     published |-> "2024-01-15T09:30:00Z", categories |-> categories]

\* {"total_results": 0, "entries": []}
EmptyResults == [total_results |-> 0, entries |-> <<>>]

\* the citation count of an entry: no key, None, or an int
NoCount == [kind |-> "absent"]
NoneCount == [kind |-> "none"]
IntCount(n) == [kind |-> "int", value |-> n]

\* _query_arxiv without its try block
Mutant_query_arxiv(reply) ==
    IF reply.kind = "raise"
    THEN [raised |-> "ConnectionError", text |-> ReplyNoBody]
    ELSE IF reply.kind = "status"
    THEN [raised |-> "none", text |-> ReplyNoBody]
    ELSE [raised |-> "none", text |-> reply]

\* the body returned by _query_arxiv: None when the request raises or the
\* status is not 200
EnhancedArxivSearch_query_arxiv(reply) ==
    IF reply.kind \in {"raise", "status"}
    THEN [raised |-> "none", text |-> ReplyNoBody]
    ELSE [raised |-> "none", text |-> reply]

\* the dictionary built for one entry element
EnhancedArxivSearch_parse_entry(entry) ==
    [title |-> entry.title,
     authors |-> entry.authors,
     summary |-> entry.summary,
     link |-> IF entry.pdf \notin {Absent, None, ""} THEN entry.pdf
              ELSE IF entry.id = Absent THEN None ELSE entry.id,
     published |-> entry.published,
     categories |-> entry.categories,
     citation_count |-> NoCount,
     enhanced_link |-> Absent]

EnhancedArxivSearch_parse_arxiv_response(xml_text) ==
    IF xml_text.kind = "none" THEN EmptyResults
    ELSE IF xml_text.kind = "garbage" THEN EmptyResults
    ELSE IF xml_text.total # Absent /\ ~IsDigitString(xml_text.total)
    THEN EmptyResults
    ELSE [total_results |-> IF xml_text.total = Absent THEN 0
                            ELSE int(xml_text.total),
          entries |-> [i \in 1..Len(xml_text.entries) |->
                          EnhancedArxivSearch_parse_entry(xml_text.entries[i])]]

\* re.search(r'cited by (\d+)', snippet.lower()), from position i on
RECURSIVE CitedByFrom(_, _)
CitedByFrom(s, i) ==
    IF i + 9 > Len(s) THEN NoneCount
    ELSE IF SubSeq(s, i, i + 8) = "cited by " /\ IsDigit(At(s, i + 9))
    THEN IntCount(int(SubSeq(s, i + 9, RunEnd(s, i + 9, "d"))))
    ELSE CitedByFrom(s, i + 1)

EnhancedArxivSearch_extract_citation_count(snippet) ==
    CitedByFrom(lower(snippet), 1)

\* the match threshold 0.6
SimilarityThreshold == Rat(3, 5)

Greater(x, y) == x.n * y.d > y.n * x.d

\* the inner loop over the web items for one entry; exc is the exception
\* that leaves the loop ("none" when it ends or breaks)
RECURSIVE ScanItems(_, _, _)
ScanItems(arxiv_entry, arxiv_title, items) ==
    IF items = <<>> THEN [exc |-> "none", entry |-> arxiv_entry]
    ELSE LET google_item == Head(items)
         IN  IF google_item.title = None
             THEN [exc |-> "AttributeError", entry |-> arxiv_entry]
             ELSE IF Greater(EnhancedArxivSearch_similarity_score(
                                 arxiv_title, lower(Get(google_item.title, ""))),
                             SimilarityThreshold)
             THEN IF google_item.snippet = None
                  THEN [exc |-> "AttributeError", entry |-> arxiv_entry]
                  ELSE [exc |-> "none",
                        entry |-> [arxiv_entry EXCEPT
                           !.citation_count =
                               EnhancedArxivSearch_extract_citation_count(
                                   Get(google_item.snippet, "")),
                           !.enhanced_link = Get(google_item.link, None)]]
             ELSE ScanItems(arxiv_entry, arxiv_title, Tail(items))

\* the outer loop over the entries; an exception leaves the entries not yet
\* reached as they are
RECURSIVE EnhanceEntries(_, _)
EnhanceEntries(entries, items) ==
    IF entries = <<>> THEN [exc |-> "none", entries |-> <<>>]
    ELSE LET arxiv_entry == Head(entries)
         IN  IF arxiv_entry.title = None
             THEN [exc |-> "AttributeError", entries |-> entries]
             ELSE LET r == ScanItems(arxiv_entry,
                                     lower(Get(arxiv_entry.title, "")), items)
                  IN  IF r.exc # "none"
                      THEN [exc |-> r.exc, entries |-> entries]
                      ELSE LET rest == EnhanceEntries(Tail(entries), items)
                           IN  [exc |-> rest.exc,
                                entries |-> <<r.entry>> \o rest.entries]

\* the body of the try block of _enhance_with_google
EnhanceAttempt(arxiv_results, google) ==
    IF google.kind = "raise"
    THEN [exc |-> "ConnectionError", results |-> arxiv_results]
    ELSE IF google.kind = "badjson"
    THEN [exc |-> "JSONDecodeError", results |-> arxiv_results]
    ELSE IF ~google.has_items
    THEN [exc |-> "none", results |-> arxiv_results]
    ELSE LET r == EnhanceEntries(arxiv_results.entries, google.items)
         IN  [exc |-> r.exc,
              results |-> [arxiv_results EXCEPT !.entries = r.entries]]

\* _enhance_with_google without its except clause
Mutant_enhance_with_google(arxiv_results, google, has_google_search) ==
    IF ~has_google_search
    THEN [raised |-> "none", results |-> arxiv_results]
    ELSE LET a == EnhanceAttempt(arxiv_results, google)
         IN  [raised |-> a.exc, results |-> a.results]

EnhancedArxivSearch_enhance_with_google(arxiv_results, google, has_google_search) ==
    IF ~has_google_search
    THEN [raised |-> "none", results |-> arxiv_results]
    ELSE LET a == EnhanceAttempt(arxiv_results, google)
         IN  [raised |-> "none", results |-> a.results]

\* the length above which an abstract is cut, and the length kept
AbstractLimit == 300
AbstractKept == 297

\* one formatted entry of _format_results
EnhancedArxivSearch_format_entry(entry, include_abstracts) ==
    LET authors == entry.authors
        published == Get(entry.published, "")
        categories == entry.categories
        summary == Get(entry.summary, "")
    IN  [title |-> Get(entry.title, "Untitled"),
         authors |-> IF Len(authors) > 3 THEN authors[1] \o " et al."
                     ELSE JoinWith(authors, ", "),
         published |-> IF published \in {None, ""} THEN published
                       ELSE SubSeq(published, 1,
                                   IF Len(published) < 10 THEN Len(published)
                                                          ELSE 10),
         categories |-> JoinWith(FirstThree(categories), ", ")
                        \o (IF Len(categories) > 3 THEN "..." ELSE ""),
         summary |-> IF summary \notin {None, ""} /\ include_abstracts
                     THEN IF Len(summary) > AbstractLimit
                          THEN SubSeq(summary, 1, AbstractKept) \o "..."
                          ELSE summary
                     ELSE "No abstract available.",
         link |-> Get(entry.link, ""),
         enhanced_link |-> Get(entry.enhanced_link, ""),
         citation_count |-> IF entry.citation_count = NoCount THEN NoneCount
                            ELSE entry.citation_count]

EnhancedArxivSearch_format_results(results, include_abstracts) ==
    [i \in 1..Len(results.entries) |->
        EnhancedArxivSearch_format_entry(results.entries[i], include_abstracts)]

(***************************************************************************)
(* Construction: the flags each __init__ derives from the environment      *)
(***************************************************************************)
\* what a variable of the process environment can hold: not set, set to the
\* empty string, set to a value
EnvValues == {Absent, "", "value"}

Environs ==
    [GOOGLE_SEARCH_API_KEY : EnvValues, GOOGLE_SEARCH_ENGINE_ID : EnvValues,
     OPENAI_API_KEY : EnvValues]

\* os.getenv(name, default); the default is None when none is given
getenv(environ, name, default) ==
    IF environ[name] = Absent THEN default ELSE environ[name]

\* bool(value) of an optional text
bool(value) == value \notin {None, ""}

\* the search engine identifier EnhancedArxivSearch falls back to
DefaultEngineId == "f60d7c389de5240cd"

AdvancedAgent_init(environ) ==
    LET has_openai_key == bool(getenv(environ, "OPENAI_API_KEY", None))
        has_google_search ==
            /\ bool(getenv(environ, "GOOGLE_SEARCH_API_KEY", None))
            /\ bool(getenv(environ, "GOOGLE_SEARCH_ENGINE_ID", None))
    IN  [has_openai_key |-> has_openai_key,
         has_google_search |-> has_google_search,
         available_tools |-> [math |-> TRUE, reasoning |-> has_openai_key,
                              search |-> has_google_search, knowledge |-> TRUE]]

SimplifiedAdvancedAgent_init(environ) ==
    LET has_openai_key == bool(getenv(environ, "OPENAI_API_KEY", None))
        has_google_search ==
            /\ bool(getenv(environ, "GOOGLE_SEARCH_API_KEY", None))
            /\ bool(getenv(environ, "GOOGLE_SEARCH_ENGINE_ID", None))
    IN  [has_openai_key |-> has_openai_key,
         has_google_search |-> has_google_search,
         available_tools |-> [math |-> TRUE, reasoning |-> has_openai_key,
                              search |-> has_google_search, knowledge |-> TRUE]]

\* SimplifiedAgent has no has_openai_key and no 'reasoning' or 'knowledge'
\* entry: they are kept FALSE
SimplifiedAgent_init(environ) ==
    [has_openai_key |-> FALSE,
     has_google_search |->
         /\ bool(getenv(environ, "GOOGLE_SEARCH_API_KEY", None))
         /\ bool(getenv(environ, "GOOGLE_SEARCH_ENGINE_ID", None)),
     available_tools |-> [math |-> TRUE, reasoning |-> FALSE,
                          search |-> TRUE, knowledge |-> FALSE]]

\* BasicAgent reads nothing from the environment
BasicAgent_init(environ) ==
    [has_openai_key |-> FALSE, has_google_search |-> FALSE,
     available_tools |-> [math |-> TRUE, reasoning |-> FALSE,
                          search |-> FALSE, knowledge |-> FALSE]]

\* EnhancedArxivSearch.__init__ that looks at the API key only
Mutant_EnhancedArxivSearch_init(environ) ==
    [has_google_search |->
         bool(getenv(environ, "GOOGLE_SEARCH_API_KEY", None))]

EnhancedArxivSearch_init(environ) ==
    LET google_api_key == getenv(environ, "GOOGLE_SEARCH_API_KEY", None)
        google_engine_id ==
            getenv(environ, "GOOGLE_SEARCH_ENGINE_ID", DefaultEngineId)
    IN  [has_google_search |-> bool(google_api_key) /\ bool(google_engine_id)]

\* EnhancedArxivSearch.search as one step.  calls: "google" is the request
\* to the web search endpoint
EnhancedArxivSearch_search(arxiv, google, include_abstracts, has_google_search) ==
    LET arxiv_results == EnhancedArxivSearch_query_arxiv(arxiv)
        parsed_results ==
            EnhancedArxivSearch_parse_arxiv_response(arxiv_results.text)
        enhanced_results ==
            IF has_google_search
            THEN EnhancedArxivSearch_enhance_with_google(
                     parsed_results, google, has_google_search).results
            ELSE parsed_results
    IN  [results |-> EnhancedArxivSearch_format_results(enhanced_results,
                                                        include_abstracts),
         calls |-> <<"query_arxiv", "parse_arxiv_response">>
                   \o (IF has_google_search
                       THEN <<"enhance_with_google", "google">> ELSE <<>>)
                   \o <<"format_results">>]

(***************************************************************************)
(* The command-line loop around one agent: read a query, run the agent,    *)
(* print the response.                                                     *)
(***************************************************************************)
VARIABLES
    variant,    \* the class of the agent that was constructed
    config,     \* the flags __init__ derived from the environment
    pc,         \* "idle", "pending" (query read), "done" (run returned or raised)
    query,      \* the text of the request
    env,        \* how the backends behaved during the request
    response,   \* the value run returned
    raised,     \* the exception that escaped run, "none" if it returned
    calls,      \* the steps and tool calls of the request, in order
    parsed,     \* the category, operations and numbers extracted
    text1,      \* first argument of _similarity_score
    text2,      \* second argument of _similarity_score
    score,      \* the score returned
    simpc,      \* "off", "args" (arguments chosen), "done" (score returned)
    spc,        \* position in search(): "off", "start", "queried", "parsed",
                \* "enhanced", "done"
    max_results,        \* argument of search()
    include_abstracts,  \* argument of search()
    xml_text,           \* the body _query_arxiv returned
    parsed_results,     \* the dictionary the parser returned
    enhanced_results,   \* the dictionary after _enhance_with_google
    formatted_results,  \* the list search() returns
    payload,    \* the results dictionary handed to a formatter
    fpc,        \* "off", "args" (payload chosen), "done" (formatter returned)
    environ,    \* the environment variables of the process
    ipc,        \* "off", "env" (process started), "constructed", "searched"
    workers     \* the request each worker thread of the server is serving

agentVars == <<variant, config, pc, query, env, response, raised, calls, parsed>>
simVars == <<text1, text2, score, simpc>>
searchVars == <<spc, max_results, include_abstracts, xml_text, parsed_results,
                enhanced_results, formatted_results>>
formatVars == <<payload, fpc>>
startVars == <<environ, ipc>>
serverVars == <<workers>>
vars == <<agentVars, simVars, searchVars, formatVars, startVars, serverVars>>

Variants ==
    {"AdvancedAgent", "BasicAgent", "SimplifiedAgent", "SimplifiedAdvancedAgent"}

\* the words queries are made of
Vocab ==
    {"hi", "Explain", "research", "find", "plus", "Divide", "power",
     "0", "2", "1.5+3"}

TokenSeqs == UNION {[1..n -> Vocab] : n \in 0..MaxWords}

Queries == {JoinWith(ws, " ") : ws \in TokenSeqs}

\* the flags each constructor can compute
Configs(v) ==
    CASE v = "AdvancedAgent" -> {AdvancedAgent_init(e) : e \in Environs}
      [] v = "SimplifiedAdvancedAgent" ->
            {SimplifiedAdvancedAgent_init(e) : e \in Environs}
      [] v = "SimplifiedAgent" -> {SimplifiedAgent_init(e) : e \in Environs}
      [] v = "BasicAgent" -> {BasicAgent_init(e) : e \in Environs}

\* a backend that the request does not reach
Unused == [kind |-> "unused"]

NoEnv == [tools_fail |-> FALSE, arxiv |-> Unused, cot_fails |-> FALSE,
          google |-> Unused]

Unparsed == [type |-> Absent, operations |-> <<>>, numbers |-> <<>>]

\* the backend behaviours that matter to a request of AdvancedAgent
AdvancedEnvs(q, cfg) ==
    LET t == AdvancedAgent_determine_query_type(q)
    IN  {[tools_fail |-> tf, arxiv |-> a, cot_fails |-> cf, google |-> Unused] :
            tf \in (IF t = "math" THEN BOOLEAN ELSE {FALSE}),
            a \in (IF t \in {"knowledge", "reasoning"} THEN ArxivReplies
                                                      ELSE {Unused}),
            cf \in (IF t = "reasoning" /\ cfg.has_openai_key THEN BOOLEAN
                                                             ELSE {FALSE})}

BasicEnvs == {[NoEnv EXCEPT !.tools_fail = tf] : tf \in BOOLEAN}

SimplifiedEnvs(q, cfg) ==
    IF SimplifiedAgent_determine_query_type(q) = "search" /\ cfg.has_google_search
    THEN {[NoEnv EXCEPT !.google = g] : g \in GoogleReplies}
    ELSE {NoEnv}

\* no search() call is in progress
SearchOff ==
    /\ spc = "off"
    /\ max_results = 5
    /\ include_abstracts = TRUE
    /\ xml_text = ReplyNoBody
    /\ parsed_results = EmptyResults
    /\ enhanced_results = EmptyResults
    /\ formatted_results = <<>>

\* no formatter is applied on its own
FormatOff ==
    /\ payload = [error |-> Absent]
    /\ fpc = "off"

\* the environment the flags came from is not followed
NoEnviron ==
    [GOOGLE_SEARCH_API_KEY |-> Absent, GOOGLE_SEARCH_ENGINE_ID |-> Absent,
     OPENAI_API_KEY |-> Absent]

StartupOff ==
    /\ environ = NoEnviron
    /\ ipc = "off"
    /\ workers = <<>>

Init ==
    /\ variant \in Variants
    /\ config \in Configs(variant)
    /\ pc = "idle"
    /\ query = ""
    /\ env = NoEnv
    /\ response = NoResponse
    /\ raised = "none"
    /\ calls = <<>>
    /\ parsed = Unparsed
    /\ text1 = ""
    /\ text2 = ""
    /\ score = Rat(0, 1)
    /\ simpc = "off"
    /\ SearchOff
    /\ FormatOff
    /\ StartupOff

\* query = input(...)
ReadQuery ==
    /\ pc = "idle"
    /\ \E q \in Queries : query' = q
    /\ pc' = "pending"
    /\ UNCHANGED <<variant, config, env, response, raised, calls, parsed>>
    /\ UNCHANGED <<simVars, searchVars, formatVars, startVars, serverVars>>

\* the request ends with the result r of the entry point
Finish(e, r) ==
    /\ env' = e
    /\ response' = r.response
    /\ raised' = r.raised
    /\ calls' = r.calls
    /\ parsed' = r.parsed
    /\ pc' = "done"
    /\ UNCHANGED <<variant, config, query>>
    /\ UNCHANGED <<simVars, searchVars, formatVars, startVars, serverVars>>

\* a run that marks the reasoning tool unavailable once the remote call failed
Mutant_AdvancedRun ==
    /\ pc = "pending"
    /\ variant = "AdvancedAgent"
    /\ \E e \in AdvancedEnvs(query, config) :
          LET r == AdvancedAgent_run(query, e, config)
          IN  /\ env' = e
              /\ response' = r.response
              /\ raised' = r.raised
              /\ calls' = r.calls
              /\ parsed' = r.parsed
              /\ config' = IF e.cot_fails
                           THEN [config EXCEPT !.available_tools.reasoning = FALSE]
                           ELSE config
    /\ pc' = "done"
    /\ UNCHANGED <<variant, query>>
    /\ UNCHANGED <<simVars, searchVars, formatVars, startVars, serverVars>>

AdvancedRun ==
    /\ pc = "pending"
    /\ variant = "AdvancedAgent"
    /\ \E e \in AdvancedEnvs(query, config) :
          Finish(e, AdvancedAgent_run(query, e, config))

BasicRun ==
    /\ pc = "pending"
    /\ variant = "BasicAgent"
    /\ \E e \in BasicEnvs : Finish(e, BasicAgent_run(query, e))

SimplifiedProcessQuery ==
    /\ pc = "pending"
    /\ variant = "SimplifiedAgent"
    /\ \E e \in SimplifiedEnvs(query, config) :
          Finish(e, SimplifiedAgent_process_query(query, e, config))

SimplifiedAdvancedRun ==
    /\ pc = "pending"
    /\ variant = "SimplifiedAdvancedAgent"
    /\ Finish(NoEnv, SimplifiedAdvancedAgent_run(query))

\* print(response); the request's data is dropped
PrintResponse ==
    /\ pc = "done"
    /\ pc' = "idle"
    /\ query' = ""
    /\ env' = NoEnv
    /\ response' = NoResponse
    /\ raised' = "none"
    /\ calls' = <<>>
    /\ parsed' = Unparsed
    /\ UNCHANGED <<variant, config>>
    /\ UNCHANGED <<simVars, searchVars, formatVars, startVars, serverVars>>

Next ==
    \/ ReadQuery
    \/ AdvancedRun
    \/ BasicRun
    \/ SimplifiedProcessQuery
    \/ SimplifiedAdvancedRun
    \/ PrintResponse

Spec == Init /\ [][Next]_vars

(***************************************************************************)
(* The similarity score as a function of two titles.                       *)
(***************************************************************************)
\* the words titles are made of
TitleVocab == {"Deep", "deep", "learning", "Deep-Learning", "?!"}

Titles ==
    {JoinWith(ws, " ") : ws \in UNION {[1..n -> TitleVocab] : n \in 0..MaxTitleWords}}

SimInit ==
    /\ variant = "BasicAgent"
    /\ config \in Configs("BasicAgent")
    /\ pc = "idle"
    /\ query = ""
    /\ env = NoEnv
    /\ response = NoResponse
    /\ raised = "none"
    /\ calls = <<>>
    /\ parsed = Unparsed
    /\ text1 \in Titles
    /\ text2 \in Titles
    /\ score = Rat(0, 1)
    /\ simpc = "args"
    /\ SearchOff
    /\ FormatOff
    /\ StartupOff

SimilarityScore ==
    /\ simpc = "args"
    /\ score' = EnhancedArxivSearch_similarity_score(text1, text2)
    /\ simpc' = "done"
    /\ UNCHANGED <<text1, text2>>
    /\ UNCHANGED <<agentVars, searchVars, formatVars, startVars, serverVars>>

SimNext == SimilarityScore

SpecSimilarity == SimInit /\ [][SimNext]_vars

(***************************************************************************)
(* A knowledge lookup, step by step: EnhancedArxivSearch.search (query,    *)
(* parse, enhance, format) and the knowledge branch of AdvancedAgent.run   *)
(* (execute_knowledge, format_knowledge_response) on the same feeds.       *)
(***************************************************************************)
\* the largest number of entry elements in a feed
MaxEntries == 2

RECURSIVE Repeat(_, _)
Repeat(c, n) ==
    IF n = 0 THEN ""
    ELSE LET half == Repeat(c, n \div 2)
         IN  half \o half \o (IF n % 2 = 1 THEN c ELSE "")

ShortTitle == "Deep Learning"
LongTitle == "Deep Learning for Graph Data"

SearchEntries ==
    {ArxivEntry(ShortTitle, <<"A. One">>, "A study of deep networks.",
                <<"cs.LG">>, "http://arxiv.org/pdf/2401.00001"),
     ArxivEntry(LongTitle, <<"A. One", "B. Two", "C. Three", "D. Four">>,
                Repeat("a", AbstractLimit + 1),
                <<"cs.LG", "cs.AI", "stat.ML", "cs.CV">>, Absent),
     ArxivEntry(None, <<"A. One", "B. Two">>, None, <<>>, Absent),
     ArxivEntry(Absent, <<>>, Absent, <<>>, Absent),
     ArxivEntry(ShortTitle, <<"A. One", "B. Two", "C. Three">>,
                Repeat("b", AbstractLimit), <<>>, Absent)}

\* the text of the totalResults element
Totals == {Absent, "x", "0", "1", "3"}

SearchFeeds ==
    {Feed(t, es) : t \in Totals,
                   es \in UNION {[1..n -> SearchEntries] : n \in 0..MaxEntries}}

\* the status of the reply is not 200
ReplyStatus == [kind |-> "status"]

\* the request raises / the body of the reply is not JSON
WebRaise == [kind |-> "raise"]
WebBadJson == [kind |-> "badjson"]

WebItem(title, snippet, link) ==
    [title |-> title, snippet |-> snippet, link |-> link]

SurveyItem ==
    WebItem("Deep Learning Survey", "A survey. Cited by 12 - Related articles",
            "http://example.org/survey")
PlainItem ==
    WebItem("deep learning", "An introduction.", "http://example.org/intro")
ImagesItem ==
    WebItem("Deep Learning for Images", "Cited by 7", "http://example.org/images")
GraphItem ==
    WebItem("DEEP LEARNING FOR GRAPH DATA (PDF)", Absent, Absent)
UntitledItem == WebItem(None, "Cited by 3", "http://example.org/untitled")
NoSnippetItem == WebItem("Deep Learning", None, "http://example.org/nosnippet")

WebReplies ==
    {WebRaise, WebBadJson, GoogleNoItems, GoogleItems(<<>>),
     GoogleItems(<<ImagesItem, GraphItem>>),
     GoogleItems(<<SurveyItem, GraphItem>>),
     GoogleItems(<<PlainItem, SurveyItem>>),
     GoogleItems(<<UntitledItem, SurveyItem>>),
     GoogleItems(<<GraphItem, NoSnippetItem>>)}

EnhancedConfigs == {EnhancedArxivSearch_init(e) : e \in Environs}

SearchInit ==
    /\ variant \in {"EnhancedArxivSearch", "AdvancedAgent"}
    /\ config \in IF variant = "AdvancedAgent" THEN Configs("AdvancedAgent")
                  ELSE EnhancedConfigs
    /\ pc = "idle"
    /\ query = "research on deep learning"
    /\ env \in
         IF variant = "AdvancedAgent"
         THEN {[NoEnv EXCEPT !.arxiv = a] :
                  a \in {ReplyRaise, ReplyNoBody, ReplyGarbage} \cup SearchFeeds}
         ELSE {[NoEnv EXCEPT !.arxiv = a, !.google = g] :
                  a \in {ReplyRaise, ReplyStatus, ReplyGarbage} \cup SearchFeeds,
                  g \in IF config.has_google_search THEN WebReplies ELSE {Unused}}
    /\ response = NoResponse
    /\ raised = "none"
    /\ calls = <<>>
    /\ parsed = Unparsed
    /\ text1 = ""
    /\ text2 = ""
    /\ score = Rat(0, 1)
    /\ simpc = "off"
    /\ spc = "start"
    /\ max_results \in IF variant = "AdvancedAgent" THEN {3} ELSE {1, 2}
    /\ include_abstracts \in IF variant = "AdvancedAgent" THEN {TRUE} ELSE BOOLEAN
    /\ xml_text = ReplyNoBody
    /\ parsed_results = EmptyResults
    /\ enhanced_results = EmptyResults
    /\ formatted_results = <<>>
    /\ FormatOff
    /\ StartupOff

SearchFrame == UNCHANGED <<variant, config, pc, query, env, parsed, simVars,
                           max_results, include_abstracts, formatVars,
                           startVars, serverVars>>

\* arxiv_results = self._query_arxiv(query, max_results)
\* requests.get is called without a timeout: it returns only when the
\* endpoint answers or the connection fails
QueryArxiv ==
    /\ variant = "EnhancedArxivSearch"
    /\ spc = "start"
    /\ env.arxiv # ReplyHang
    /\ LET r == EnhancedArxivSearch_query_arxiv(env.arxiv)
       IN  /\ xml_text' = r.text
           /\ raised' = r.raised
           /\ spc' = IF r.raised = "none" THEN "queried" ELSE "done"
    /\ calls' = Append(calls, "query_arxiv")
    /\ UNCHANGED <<response, parsed_results, enhanced_results, formatted_results>>
    /\ SearchFrame

\* parsed_results = self._parse_arxiv_response(arxiv_results)
ParseArxivResponse ==
    /\ variant = "EnhancedArxivSearch"
    /\ spc = "queried"
    /\ parsed_results' = EnhancedArxivSearch_parse_arxiv_response(xml_text)
    /\ spc' = "parsed"
    /\ calls' = Append(calls, "parse_arxiv_response")
    /\ UNCHANGED <<response, raised, xml_text, enhanced_results, formatted_results>>
    /\ SearchFrame

\* the enhancement step of search(): _enhance_with_google when the web
\* search is configured, the parsed results as they are otherwise
EnhanceResults ==
    /\ variant = "EnhancedArxivSearch"
    /\ spc = "parsed"
    /\ config.has_google_search => env.google # ReplyHang
    /\ IF config.has_google_search
       THEN LET r == EnhancedArxivSearch_enhance_with_google(
                         parsed_results, env.google, config.has_google_search)
            IN  /\ enhanced_results' = r.results
                /\ raised' = r.raised
                /\ spc' = IF r.raised = "none" THEN "enhanced" ELSE "done"
                /\ calls' = Append(calls, "enhance_with_google")
       ELSE /\ enhanced_results' = parsed_results
            /\ spc' = "enhanced"
            /\ UNCHANGED <<raised, calls>>
    /\ UNCHANGED <<response, xml_text, parsed_results, formatted_results>>
    /\ SearchFrame

\* formatted_results = self._format_results(enhanced_results, include_abstracts)
FormatResults ==
    /\ variant = "EnhancedArxivSearch"
    /\ spc = "enhanced"
    /\ formatted_results' =
          EnhancedArxivSearch_format_results(enhanced_results, include_abstracts)
    /\ spc' = "done"
    /\ calls' = Append(calls, "format_results")
    /\ UNCHANGED <<response, raised, xml_text, parsed_results, enhanced_results>>
    /\ SearchFrame

\* results = self.execute_knowledge(parsed_knowledge)
AdvancedExecuteKnowledge ==
    /\ variant = "AdvancedAgent"
    /\ spc = "start"
    /\ xml_text' = IF env.arxiv.kind = "raise" THEN ReplyNoBody ELSE env.arxiv
    /\ parsed_results' =
          AdvancedAgent_execute_knowledge(
              AdvancedAgent_parse_knowledge_query(query), env.arxiv)
    /\ spc' = "parsed"
    /\ calls' = Append(calls, "execute_knowledge")
    /\ UNCHANGED <<response, raised, enhanced_results, formatted_results>>
    /\ SearchFrame

\* response = self.format_knowledge_response(query, results)
AdvancedFormatKnowledge ==
    /\ variant = "AdvancedAgent"
    /\ spc = "parsed"
    /\ LET r == AdvancedAgent_format_knowledge_response(
                    query, parsed_results, config.has_openai_key)
       IN  /\ response' = r.response
           /\ raised' = r.raised
           /\ calls' = Append(calls, "format_knowledge_response") \o r.calls
    /\ spc' = "done"
    /\ UNCHANGED <<xml_text, parsed_results, enhanced_results, formatted_results>>
    /\ SearchFrame

SearchNext ==
    \/ QueryArxiv
    \/ ParseArxivResponse
    \/ EnhanceResults
    \/ FormatResults
    \/ AdvancedExecuteKnowledge
    \/ AdvancedFormatKnowledge

SpecSearch == SearchInit /\ [][SearchNext]_vars

(***************************************************************************)
(* Properties                                                              *)
(***************************************************************************)
Called(c) == \E i \in 1..Len(calls) : calls[i] = c

\* a math tool or operator was applied during the request
Evaluated(op) ==
    \/ Called("tool:" \o op)
    \/ Called("op:" \o op)
    \/ (op = "exponents" /\ Called("op:exponentiation"))

EvaluatedAny ==
    \E op \in {"addition", "subtraction", "multiplication", "division",
               "exponents"} : Evaluated(op)

\* the request went through the math handler of the variant
MathHandled ==
    \/ Called("execute_math")
    \/ Called("execute_operations")
    \/ Called("process_math_query")

WordCount(q) == Len(split(lower(q)))

\* the text has a term of the set
Has(q, terms) == AnyTerm(lower(q), terms)

HasLines == response.tmpl \in {"For your query: '{query}'",
                               "Based on your query: '{query}'"}

\* the values on the result lines of an operation in a math response
LineValues(op) ==
    {response.lines[i].value : i \in
        {j \in 1..Len(response.lines) :
            response.lines[j].label \in {MathLabel(op), BasicLabel(op)}}}

\* C1: classification is first-match-wins on the lower-cased text: math,
\* then knowledge, then reasoning, then search, else reasoning in
\* AdvancedAgent and SimplifiedAdvancedAgent; math, then search, else
\* general in SimplifiedAgent; a query with a math and a reasoning keyword
\* is math.
C1_FirstMatchWins ==
    (pc = "done" /\ Called("determine_query_type")) =>
        /\ variant \in {"AdvancedAgent", "SimplifiedAdvancedAgent"} =>
              /\ Has(query, MathTerms) => parsed.type = "math"
              /\ (~Has(query, MathTerms) /\ Has(query, KnowledgeTerms))
                    => parsed.type = "knowledge"
              /\ (~Has(query, MathTerms) /\ ~Has(query, KnowledgeTerms)
                  /\ Has(query, ReasoningTerms)) => parsed.type = "reasoning"
              /\ (~Has(query, MathTerms) /\ ~Has(query, KnowledgeTerms)
                  /\ ~Has(query, ReasoningTerms) /\ Has(query, SearchTerms))
                    => parsed.type = "search"
              /\ (~Has(query, MathTerms) /\ ~Has(query, KnowledgeTerms)
                  /\ ~Has(query, ReasoningTerms) /\ ~Has(query, SearchTerms))
                    => parsed.type = "reasoning"
        /\ variant = "SimplifiedAgent" =>
              /\ Has(query, MathTerms) => parsed.type = "math"
              /\ (~Has(query, MathTerms) /\ Has(query, SimplifiedSearchTerms))
                    => parsed.type = "search"
              /\ (~Has(query, MathTerms) /\ ~Has(query, SimplifiedSearchTerms))
                    => parsed.type = "general"

\* a query with a math keyword and a reasoning keyword was classified math
C1_Witness ==
    /\ pc = "done"
    /\ variant = "AdvancedAgent"
    /\ Has(query, {"explain"})
    /\ Has(query, {"plus"})
    /\ parsed.type = "math"

\* C2: the entry point of every variant returns a string and lets no
\* exception escape, whatever the backends do.
C2_NeverRaises ==
    pc = "done" => (raised = "none" /\ response.tmpl # Absent)

\* the fixed texts a short query or a greeting is answered with
SuggestionTexts(q) ==
    {CapabilitiesText, ShortQueryText(q),
     [tmpl |-> "I can help you with various types of questions: (math, search)"],
     [tmpl |-> "I notice you've asked about \"{query}\". I can provide more information if you ask a more specific question. (math, search)",
      query |-> q]}

IsShortInput(q) ==
    \/ WordCount(q) \in {1, 2}
    \/ lower(q) \in Greetings

\* C3: a query of one or two words, or a greeting, gets the fixed suggestion
\* text from every variant, with no classification, no extraction and no
\* handler run.
C3_ShortInputTemplate ==
    (pc = "done" /\ IsShortInput(query)) =>
        /\ response \in SuggestionTexts(query)
        /\ calls = <<>>

DivisionSelected ==
    \E i \in 1..Len(parsed.operations) : parsed.operations[i] = "division"

\* C4: when division is selected and the second number is 0, the outcome
\* for division is the variant's divide-by-zero text; the division tool or
\* operator is not applied and nothing is raised.
C4_DivideByZero ==
    (/\ pc = "done"
     /\ DivisionSelected
     /\ Len(parsed.numbers) >= 2
     /\ IsZero(parsed.numbers[2])) =>
        /\ raised = "none"
        /\ ~Evaluated("division")
        /\ variant \in {"AdvancedAgent", "BasicAgent"} =>
              /\ HasLines
              /\ LineValues("division") = {[text |-> "Error: Division by zero"]}
        /\ variant = "SimplifiedAgent" =>
              response = [tmpl |-> "Cannot divide by zero."]
        /\ variant = "SimplifiedAdvancedAgent" =>
              response = [tmpl |-> "I cannot divide by zero."]

\* AdvancedAgent was asked to divide a number by 0
C4_Witness ==
    /\ pc = "done"
    /\ variant = "AdvancedAgent"
    /\ Has(query, {"divide"})
    /\ DivisionSelected
    /\ Len(parsed.numbers) >= 2
    /\ ~IsZero(parsed.numbers[1])
    /\ IsZero(parsed.numbers[2])
    /\ ~env.tools_fail

\* C5: a query with at least two numeric substrings and an addition keyword
\* (add, sum, plus or +) is classified math by AdvancedAgent.run and the
\* response reports the sum of the first two numbers (the addition tool
\* working).
C5_AdditionSum ==
    (/\ pc = "done"
     /\ variant = "AdvancedAgent"
     /\ ~env.tools_fail
     /\ Len(findall_float(query)) >= 2
     /\ Has(query, {"add", "sum", "plus", "+"})) =>
        /\ parsed.type = "math"
        /\ HasLines
        /\ LineValues("addition") =
              {Add(float(findall_float(query)[1]), float(findall_float(query)[2]))}

\* the operator groups each variant tests, in the order it tests them
GroupsOf(v) ==
    IF v = "SimplifiedAdvancedAgent"
    THEN <<"addition", "subtraction", "multiplication", "division">>
    ELSE <<"addition", "subtraction", "multiplication", "division", "exponents">>

GroupTerms(v, op) ==
    CASE v = "AdvancedAgent" -> AdvancedOpTerms(op)
      [] v = "BasicAgent" -> BasicOpTerms(op)
      [] v = "SimplifiedAgent" ->
            (CASE op = "addition" -> {"add", "sum", "plus"}
               [] op = "subtraction" -> {"subtract", "minus", "difference"}
               [] op = "multiplication" -> {"multiply", "product", "times"}
               [] op = "division" -> {"divide", "quotient"}
               [] op = "exponents" -> {"power", "exponent", "squared", "cubed"})
      [] v = "SimplifiedAdvancedAgent" ->
            (CASE op = "addition" -> {"add", "sum", "plus", "+"}
               [] op = "subtraction" -> {"subtract", "minus", "difference", "-"}
               [] op = "multiplication" -> {"multiply", "product", "times", "*", "x"}
               [] op = "division" -> {"divide", "quotient", "/"})

\* the groups of the variant that the query matches, in order
Matched ==
    LET groups == GroupsOf(variant)
    IN  SelectIn(groups, {groups[i] : i \in
                    {j \in 1..Len(groups) :
                        Has(query, GroupTerms(variant, groups[j]))}})

\* the operation names of the request, with SimplifiedAgent's
\* "exponentiation" written as the group name
OperationsRun ==
    [i \in 1..Len(parsed.operations) |->
        IF parsed.operations[i] = "exponentiation" THEN "exponents"
        ELSE parsed.operations[i]]

\* what the loop stores for op on the pair (num1, num2)
ExpectedValue(op, num1, num2) ==
    IF op = "division" /\ IsZero(num2) THEN [text |-> "Error: Division by zero"]
    ELSE IF env.tools_fail THEN [text |-> "Error: {str(e)}"]
    ELSE MathTool(op, num1, num2)

\* C6 as stated: in every variant, a math query with two numbers that matches
\* k operator groups has exactly those k operations evaluated.
C6_EveryMatchEvaluated ==
    (pc = "done" /\ MathHandled /\ Len(parsed.numbers) >= 2) =>
        OperationsRun = Matched

\* What the handlers do with matched groups: AdvancedAgent and BasicAgent evaluate every matched group on
\* the first two numbers and give one labelled line per matched group;
\* SimplifiedAgent and SimplifiedAdvancedAgent select only the first matched
\* group of their chain.
C6_MatchedOperations ==
    (pc = "done" /\ MathHandled /\ Len(parsed.numbers) >= 2) =>
        /\ variant \in {"AdvancedAgent", "BasicAgent"} =>
              /\ OperationsRun = Matched
              /\ Matched # <<>> =>
                    /\ HasLines
                    /\ Len(response.lines) = Len(Matched)
                    /\ \A i \in 1..Len(Matched) :
                          /\ response.lines[i].label \in
                                {MathLabel(Matched[i]), BasicLabel(Matched[i])}
                          /\ response.lines[i].value =
                                ExpectedValue(Matched[i], parsed.numbers[1],
                                              parsed.numbers[2])
              /\ Matched = <<>> => ~HasLines
        /\ variant \in {"SimplifiedAgent", "SimplifiedAdvancedAgent"} =>
              OperationsRun = IF Matched = <<>> THEN <<>> ELSE <<Head(Matched)>>

\* AdvancedAgent evaluated two operations on one pair of numbers
C6_Witness ==
    /\ pc = "done"
    /\ variant = "AdvancedAgent"
    /\ Len(parsed.numbers) >= 2
    /\ Len(parsed.operations) >= 2
    /\ HasLines
    /\ Len(response.lines) = Len(parsed.operations)
    /\ Evaluated("addition")
    /\ Evaluated("exponents")

OtherOperatorTerms ==
    {"add", "sum", "plus", "subtract", "minus", "difference", "multiply",
     "product", "times", "divide", "quotient", "+", "-", "*", "/"}

\* C7: in every variant a query of three or more words with a power keyword,
\* two numbers a and b and no other operator keyword is classified math, the
\* operator is exponentiation and the response has a raised to b (the tools
\* working).
C7_PowerQuery ==
    (/\ pc = "done"
     /\ ~env.tools_fail
     /\ WordCount(query) >= 3
     /\ Has(query, {"power", "exponent", "squared", "cubed"})
     /\ ~Has(query, OtherOperatorTerms)
     /\ ~Has(query, {"."})
     /\ Len(findall_digits(query)) >= 2) =>
        LET a == Rat(int(findall_digits(query)[1]), 1)
            b == Rat(int(findall_digits(query)[2]), 1)
        IN  /\ variant # "BasicAgent" => parsed.type = "math"
            /\ \/ /\ HasLines
                  /\ LineValues("exponents") = {Power(a, b)}
               \/ /\ response.tmpl = "The result of {operation} is: {result}"
                  /\ response.operation = "exponentiation"
                  /\ response.value = Power(a, b)

\* C8: a math query with fewer than two numbers gets the variant's
\* need-two-numbers message; no operation is evaluated and nothing is raised.
C8_TooFewNumbers ==
    (pc = "done" /\ MathHandled /\ Len(parsed.numbers) < 2) =>
        /\ raised = "none"
        /\ ~EvaluatedAny
        /\ variant = "AdvancedAgent" =>
              response = [tmpl |-> "I couldn't process your math query: {error}",
                          error |-> "Need at least two numbers for calculations"]
        /\ variant = "BasicAgent" =>
              response = [tmpl |-> "I couldn't process your query: {error}",
                          error |-> "Need at least two numbers for calculations"]
        /\ variant \in {"SimplifiedAgent", "SimplifiedAdvancedAgent"} =>
              response = [tmpl |-> "I need at least two numbers to perform a calculation."]

\* AdvancedAgent got an operator keyword with a single number
C8_Witness ==
    /\ pc = "done"
    /\ variant = "AdvancedAgent"
    /\ parsed.type = "math"
    /\ parsed.operations # <<>>
    /\ Len(parsed.numbers) = 1
    /\ response.tmpl = "I couldn't process your math query: {error}"

\* C9: the score is symmetric, lies in [0, 1], is
\* |words1 /\ words2| / max(|words1|, |words2|) on lower-cased word sets, and
\* is 0 when the sets are disjoint or one is empty.
C9_SimilarityScore ==
    simpc = "done" =>
        LET words1 == WordSet(text1)
            words2 == WordSet(text2)
        IN  /\ score = EnhancedArxivSearch_similarity_score(text2, text1)
            /\ 0 <= score.n
            /\ score.n <= score.d
            /\ (words1 # {} /\ words2 # {}) =>
                  score.n * Max(Cardinality(words1), Cardinality(words2))
                     = Cardinality(words1 \cap words2) * score.d
            /\ (words1 \cap words2 = {}) => score.n = 0

\* two titles of different sizes that share a word were scored
C9_Witness ==
    /\ simpc = "done"
    /\ text1 # text2
    /\ Cardinality(WordSet(text1)) < Cardinality(WordSet(text2))
    /\ score.n > 0
    /\ score.n < score.d

\* C10 as stated: every title scores 1 against itself.
C10_IdenticalScoreOne ==
    (simpc = "done" /\ text1 = text2) => score = Rat(1, 1)

\* C10, amended: a title with at least one word character scores 1 against
\* itself; a title without word characters (the empty title too) scores 0
\* against itself.
C10_IdenticalTitles ==
    (simpc = "done" /\ text1 = text2) =>
        score = IF \E i \in 1..Len(text1) : IsWordChar(At(text1, i))
                THEN Rat(1, 1) ELSE Rat(0, 1)

\* a title that repeats a word was scored against itself
C10_Witness ==
    /\ simpc = "done"
    /\ text1 = text2
    /\ Len(findall_words(text1)) > Cardinality(WordSet(text1))
    /\ score = Rat(1, 1)

(***************************************************************************)
(* Properties of the knowledge lookup (SpecSearch)                         *)
(***************************************************************************)
IsEnhanced == variant = "EnhancedArxivSearch"

\* the parser has returned
AfterParse == spc \in {"parsed", "enhanced", "done"} /\ Called("parse_arxiv_response")

\* _enhance_with_google has been called and the web reply had an items list
AfterEnhance == IsEnhanced /\ Called("enhance_with_google")

WebItems ==
    IF env.google.kind = "json" /\ env.google.has_items THEN env.google.items
    ELSE <<>>

IsText(t) == t \notin {Absent, None}

TextOr(t, default) == IF IsText(t) THEN t ELSE default

\* item j is above the threshold for the title
Matches(title, item) ==
    LET words1 == WordSet(TextOr(title, ""))
        words2 == WordSet(TextOr(item.title, ""))
    IN  /\ words1 # {}
        /\ words2 # {}
        /\ 10 * Cardinality(words1 \cap words2)
              > 6 * Max(Cardinality(words1), Cardinality(words2))

\* the index of the first item above the threshold, 0 when there is none
FirstMatch(title, items) ==
    LET S == {j \in 1..Len(items) : Matches(title, items[j])}
    IN  IF S = {} THEN 0 ELSE CHOOSE j \in S : \A k \in S : j <= k

\* C11: after _enhance_with_google, each parsed entry carries the link and
\* the citation count of the first web item whose title scores above 0.6
\* against its title, and an entry with no such item is unchanged.
C11_FirstMatchAttached ==
    (AfterEnhance /\ env.google.kind = "json" /\ env.google.has_items) =>
        \A i \in 1..Len(parsed_results.entries) :
            LET e == parsed_results.entries[i]
                j == FirstMatch(e.title, WebItems)
            IN  enhanced_results.entries[i] =
                   IF j = 0 THEN e
                   ELSE [e EXCEPT
                           !.enhanced_link = Get(WebItems[j].link, None),
                           !.citation_count =
                               EnhancedArxivSearch_extract_citation_count(
                                   TextOr(WebItems[j].snippet, ""))]

\* What the scan does when nothing in it throws: with entries and web items
\* whose titles and snippets are not None, each entry carries the link and
\* the count of its first item above the threshold and no other entry is
\* changed.
FirstMatchWhenUsable ==
    (/\ AfterEnhance
     /\ env.google.kind = "json"
     /\ env.google.has_items
     /\ \A j \in 1..Len(WebItems) :
           WebItems[j].title # None /\ WebItems[j].snippet # None
     /\ \A i \in 1..Len(parsed_results.entries) :
           parsed_results.entries[i].title # None) =>
        \A i \in 1..Len(parsed_results.entries) :
            LET e == parsed_results.entries[i]
                j == FirstMatch(e.title, WebItems)
            IN  enhanced_results.entries[i] =
                   IF j = 0 THEN e
                   ELSE [e EXCEPT
                           !.enhanced_link = Get(WebItems[j].link, None),
                           !.citation_count =
                               EnhancedArxivSearch_extract_citation_count(
                                   TextOr(WebItems[j].snippet, ""))]

\* the entries differ at most in the two keys the enhancement sets
SameButEnhancement(e1, e2) ==
    [e1 EXCEPT !.enhanced_link = Absent, !.citation_count = NoCount]
       = [e2 EXCEPT !.enhanced_link = Absent, !.citation_count = NoCount]

\* C12: _enhance_with_google never raises; it returns the parsed results
\* unchanged when the reply has no items (no key, or an empty list) or the
\* request or the JSON decoding throws, and the same result set (same total,
\* same entries apart from the enhancement keys) in every case.
C12_EnhanceNeverRaises ==
    AfterEnhance =>
        /\ raised = "none"
        /\ spc \in {"enhanced", "done"}
        /\ enhanced_results.total_results = parsed_results.total_results
        /\ Len(enhanced_results.entries) = Len(parsed_results.entries)
        /\ \A i \in 1..Len(parsed_results.entries) :
              SameButEnhancement(enhanced_results.entries[i],
                                 parsed_results.entries[i])
        /\ WebItems = <<>> => enhanced_results = parsed_results

\* the JSON decoding threw on a reply to a search with entries
C12_Witness ==
    /\ AfterEnhance
    /\ spc = "enhanced"
    /\ env.google = WebBadJson
    /\ parsed_results.entries # <<>>
    /\ enhanced_results = parsed_results

WellFormedFeed ==
    /\ xml_text.kind = "feed"
    /\ xml_text.total # Absent
    /\ IsDigitString(xml_text.total)

\* C13: in both parsers a well-formed feed with N entries and totalResults T
\* parses to N entries in feed order with total_results = T, and an
\* unparsable or absent body parses to the empty result set, with no error
\* payload and no fault.
C13_ParseFeed ==
    (/\ spc \in {"parsed", "enhanced", "done"}
     /\ ~(variant = "AdvancedAgent" /\ env.arxiv.kind = "raise")) =>
        /\ WellFormedFeed =>
              /\ Len(parsed_results.entries) = Len(xml_text.entries)
              /\ \A i \in 1..Len(xml_text.entries) :
                    /\ parsed_results.entries[i].title = xml_text.entries[i].title
                    /\ parsed_results.entries[i].summary = xml_text.entries[i].summary
              /\ parsed_results.total_results = int(xml_text.total)
        /\ xml_text.kind \in {"none", "garbage"} =>
              /\ parsed_results.total_results = 0
              /\ parsed_results.entries = <<>>
              /\ "error" \in DOMAIN parsed_results => parsed_results.error = Absent

\* C14: the result set of search() has at most max_results entries, and at
\* most total_results entries when total_results > 0.
C14_EntriesBounded ==
    (IsEnhanced /\ spc \in {"parsed", "enhanced", "done"}) =>
        /\ Len(parsed_results.entries) <= max_results
        /\ parsed_results.total_results > 0 =>
              Len(parsed_results.entries) <= parsed_results.total_results
        /\ spc = "done" => Len(formatted_results) <= max_results

EndpointFailed ==
    \/ env.arxiv.kind \in {"raise", "status", "garbage"}
    \/ /\ env.arxiv.kind = "feed"
       /\ env.arxiv.total # Absent
       /\ ~IsDigitString(env.arxiv.total)

\* C15: search() never raises, and when the academic endpoint fails
\* (exception, status other than 200, unparsable body) every stage yields
\* the empty result: total_results 0, no entries, an empty formatted list.
C15_EndpointFailureEmpty ==
    IsEnhanced =>
        /\ raised = "none"
        /\ spc = "done" => Called("format_results")
        /\ EndpointFailed =>
              /\ spc \in {"parsed", "enhanced", "done"} =>
                    parsed_results = EmptyResults
              /\ spc \in {"enhanced", "done"} => enhanced_results = EmptyResults
              /\ spc = "done" => formatted_results = <<>>

\* the request to the academic endpoint raised and search() returned []
C15_Witness ==
    /\ IsEnhanced
    /\ spc = "done"
    /\ env.arxiv.kind = "raise"
    /\ config.has_google_search
    /\ env.google.kind = "json"
    /\ Called("query_arxiv")
    /\ formatted_results = <<>>

\* C16: a failure on one entry leaves the other entries parsed, considered
\* for enhancement and returned: with web items that are all usable, every
\* entry with a title that has an item above the threshold is enhanced,
\* whatever the other entries of the feed are.
C16_EntryFailuresSkipped ==
    (/\ AfterEnhance
     /\ spc \in {"enhanced", "done"}
     /\ WebItems # <<>>
     /\ \A j \in 1..Len(WebItems) :
           WebItems[j].title # None /\ WebItems[j].snippet # None) =>
        /\ xml_text.kind = "feed" =>
              Len(enhanced_results.entries) = Len(xml_text.entries)
        /\ \A i \in 1..Len(parsed_results.entries) :
              (/\ IsText(parsed_results.entries[i].title)
               /\ FirstMatch(parsed_results.entries[i].title, WebItems) # 0) =>
                  enhanced_results.entries[i].enhanced_link # Absent

\* the summaries displayed, next to the summaries they were made from
DisplayedSummaries ==
    IF IsEnhanced
    THEN [i \in 1..Len(formatted_results) |->
             [from |-> enhanced_results.entries[i].summary,
              shown |-> formatted_results[i].summary]]
    ELSE [i \in 1..Len(response.items) |->
             [from |-> parsed_results.entries[i].summary,
              shown |-> response.items[i].summary]]

DisplayedAuthors ==
    IF IsEnhanced
    THEN [i \in 1..Len(formatted_results) |->
             [from |-> enhanced_results.entries[i].authors,
              shown |-> formatted_results[i].authors]]
    ELSE [i \in 1..Len(response.items) |->
             [from |-> parsed_results.entries[i].authors,
              shown |-> response.items[i].authors]]

\* a list of entries was formatted for display
EntriesDisplayed ==
    /\ spc = "done"
    /\ raised = "none"
    /\ IF IsEnhanced THEN include_abstracts
       ELSE response.tmpl = "Here's what I found about '{query}' from scientific research:"

\* C17: in both formatters a summary longer than 300 characters is displayed
\* in at most 300 characters, ellipsis included, and a summary of at most
\* 300 characters is displayed unchanged.
C17_SummaryWithinLimit ==
    EntriesDisplayed =>
        \A i \in 1..Len(DisplayedSummaries) :
            LET d == DisplayedSummaries[i]
            IN  (IsText(d.from) /\ d.from # "") =>
                   IF Len(d.from) > 300
                   THEN /\ Len(d.shown) <= 300
                        /\ StartsWith(d.from, SubSeq(d.shown, 1, Len(d.shown) - 3))
                        /\ SubSeq(d.shown, Len(d.shown) - 2, Len(d.shown)) = "..."
                   ELSE d.shown = d.from

\* C18: in both formatters more than 3 authors are displayed as the first
\* author followed by "et al.", and 3 or fewer as the names joined by commas.
C18_AuthorsCollapsed ==
    EntriesDisplayed =>
        \A i \in 1..Len(DisplayedAuthors) :
            LET d == DisplayedAuthors[i]
            IN  d.shown = IF Len(d.from) > 3 THEN d.from[1] \o " et al."
                          ELSE JoinWith(d.from, ", ")

(***************************************************************************)
(* The four formatters of AdvancedAgent applied to a results dictionary.   *)
(***************************************************************************)
FormatQueries == {"hi", "add 2 and 3", "research on deep learning"}

Categories == {"math", "reasoning", "search", "knowledge"}

\* the results dictionaries a formatter can be handed, with and without the
\* 'error' key
Payloads(category) ==
    CASE category = "math" ->
            {[error |-> e, results |-> r, calls |-> <<>>] :
                e \in {Absent, "Need at least two numbers for calculations"},
                r \in {<<>>, <<[op |-> "addition", value |-> Rat(5, 1)]>>}}
      [] category = "reasoning" ->
            {[error |-> e, has_reasoning |-> h,
              reasoning |-> [tmpl |-> "{SequentialCoT result}"]] :
                e \in {Absent, "Rate limit exceeded"}, h \in BOOLEAN}
      [] category = "search" ->
            {[AdvancedAgent_execute_search([search_term |-> "deep learning"], g)
                 EXCEPT !.error = e] :
                g \in BOOLEAN,
                e \in {Absent, "Real search API call not implemented in this demo"}}
      [] category = "knowledge" ->
            {[error |-> e, total_results |-> Len(es), entries |-> es] :
                e \in {Absent, "syntax error: line 1, column 0"},
                es \in {<<>>,
                        <<AdvancedAgent_parse_entry(
                              ArxivEntry(ShortTitle, <<"A. One">>,
                                         "A study of deep networks.",
                                         <<"cs.LG">>, Absent))>>}}

FormatInit ==
    /\ variant = "AdvancedAgent"
    /\ config \in Configs("AdvancedAgent")
    /\ pc = "idle"
    /\ query \in FormatQueries
    /\ env = NoEnv
    /\ response = NoResponse
    /\ raised = "none"
    /\ calls = <<>>
    /\ parsed \in {[Unparsed EXCEPT !.type = c] : c \in Categories}
    /\ text1 = ""
    /\ text2 = ""
    /\ score = Rat(0, 1)
    /\ simpc = "off"
    /\ SearchOff
    /\ payload \in Payloads(parsed.type)
    /\ fpc = "args"
    /\ StartupOff

\* response = self.format_<category>_response(query, results)
FormatResponse ==
    /\ fpc = "args"
    /\ LET r == CASE parsed.type = "math" ->
                      [raised |-> "none",
                       response |-> AdvancedAgent_format_math_response(query, payload)]
                  [] parsed.type = "reasoning" ->
                      [raised |-> "none",
                       response |-> AdvancedAgent_format_reasoning_response(
                                        query, payload, config.has_openai_key)]
                  [] parsed.type = "search" ->
                      [raised |-> "none",
                       response |-> AdvancedAgent_format_search_response(query, payload)]
                  [] parsed.type = "knowledge" ->
                      AdvancedAgent_format_knowledge_response(
                          query, payload, config.has_openai_key)
       IN  /\ response' = r.response
           /\ raised' = r.raised
    /\ fpc' = "done"
    /\ UNCHANGED <<variant, config, pc, query, env, calls, parsed, payload>>
    /\ UNCHANGED <<simVars, searchVars, startVars, serverVars>>

FormatNext == FormatResponse

SpecFormat == FormatInit /\ [][FormatNext]_vars

\* the one-line apology of a category for an error text
Apology(category, error) ==
    [tmpl |-> "I couldn't process your " \o category \o " query: {error}",
     error |-> error]

\* C19 as stated: each of the four formatters answers a results dictionary
\* with an 'error' key by the one-line apology carrying the error text.
C19_ErrorShortCircuits ==
    (fpc = "done" /\ payload.error # Absent) =>
        /\ raised = "none"
        /\ response = Apology(parsed.type, payload.error)

\* C19, amended: the math, reasoning and search formatters answer a results
\* dictionary with an 'error' key by the one-line apology carrying the error
\* text and nothing of their normal template; the knowledge formatter
\* answers it with the simulated reasoning for the query in the reasoning
\* template, without the error text.
C19_ErrorResponses ==
    (fpc = "done" /\ payload.error # Absent) =>
        /\ raised = "none"
        /\ parsed.type \in {"math", "reasoning", "search"} =>
              /\ response = Apology(parsed.type, payload.error)
              /\ DOMAIN response = {"tmpl", "error"}
        /\ parsed.type = "knowledge" =>
              /\ response.tmpl = "Reasoning for your query: '{query}'"
              /\ response.query = query
              /\ response.reasoning = AdvancedAgent_simulate_reasoning(query, 3, "")
              /\ "error" \notin DOMAIN response
              /\ "items" \notin DOMAIN response

\* the reasoning formatter was handed an error next to a reasoning text
C19_Witness ==
    /\ fpc = "done"
    /\ parsed.type = "reasoning"
    /\ payload.error # Absent
    /\ payload.has_reasoning
    /\ response = Apology("reasoning", payload.error)

\* the search results in the response are simulated ones
ShowsSimulatedResults ==
    /\ pc = "done"
    /\ \/ /\ variant = "AdvancedAgent"
          /\ Called("execute_search")
          /\ ~config.has_google_search
       \/ variant = "SimplifiedAgent" /\ Called("simulated_search")
       \/ variant = "SimplifiedAdvancedAgent" /\ Called("process_search_query")

\* C20: in every variant a response that shows simulated search results ends
\* with a line saying that the results are simulated.
C20_SimulatedDisclaimer ==
    ShowsSimulatedResults =>
        /\ "note" \in DOMAIN response
        /\ response.note # Absent
        /\ Contains(lower(response.note), "simulated")

(***************************************************************************)
(* Properties of AdvancedAgent's replies (Spec)                            *)
(***************************************************************************)
\* the reasoning text of the response came from _simulate_reasoning
ShowsSimulatedReasoning ==
    /\ pc = "done"
    /\ variant = "AdvancedAgent"
    /\ raised = "none"
    /\ Called("simulate_reasoning")
    /\ response.tmpl = "Reasoning for your query: '{query}'"

SimulatedNote ==
    "(Note: This is a simulated response. Set up an OpenAI API key for real reasoning.)"

\* C21: a response of AdvancedAgent whose reasoning text came from the local
\* simulator carries the 'simulated response' note, also after a failed
\* remote call and after a failed knowledge query.
C21_SimulatedReasoningNote ==
    ShowsSimulatedReasoning => response.note = SimulatedNote

(***************************************************************************)
(* Startup: the process environment, the constructor, a first search.      *)
(***************************************************************************)
\* the classes that keep a has_google_search flag
StartupVariants ==
    {"AdvancedAgent", "SimplifiedAgent", "SimplifiedAdvancedAgent",
     "EnhancedArxivSearch"}

\* the object does not exist yet
Unconfigured == [constructed |-> FALSE]

StartupQuery == "find deep learning"

StartupInit ==
    /\ variant \in StartupVariants
    /\ config = Unconfigured
    /\ pc = "idle"
    /\ query = ""
    /\ env = NoEnv
    /\ response = NoResponse
    /\ raised = "none"
    /\ calls = <<>>
    /\ parsed = Unparsed
    /\ text1 = ""
    /\ text2 = ""
    /\ score = Rat(0, 1)
    /\ simpc = "off"
    /\ SearchOff
    /\ FormatOff
    /\ environ \in Environs
    /\ ipc = "env"
    /\ workers = <<>>

\* agent = AdvancedAgent() and the like
Construct ==
    /\ ipc = "env"
    /\ config' = CASE variant = "AdvancedAgent" -> AdvancedAgent_init(environ)
                   [] variant = "SimplifiedAgent" -> SimplifiedAgent_init(environ)
                   [] variant = "SimplifiedAdvancedAgent" ->
                         SimplifiedAdvancedAgent_init(environ)
                   [] variant = "EnhancedArxivSearch" ->
                         EnhancedArxivSearch_init(environ)
    /\ ipc' = "constructed"
    /\ UNCHANGED <<variant, pc, query, env, response, raised, calls, parsed,
                   environ>>
    /\ UNCHANGED <<simVars, searchVars, formatVars, serverVars>>

\* the backend behaviours a first search can meet
StartupEnvs ==
    CASE variant = "SimplifiedAgent" -> SimplifiedEnvs(StartupQuery, config)
      [] variant = "EnhancedArxivSearch" ->
            {[NoEnv EXCEPT !.arxiv = a, !.google = g] :
                a \in {ReplyRaise,
                       Feed("1", <<ArxivEntry(ShortTitle, <<"A. One">>,
                                              "A study of deep networks.",
                                              <<"cs.LG">>, Absent)>>)},
                g \in IF config.has_google_search
                      THEN {WebRaise, GoogleItems(<<SurveyItem>>)}
                      ELSE {Unused}}
      [] OTHER -> {NoEnv}

\* a search request is served by the constructed object
StartupSearch ==
    /\ ipc = "constructed"
    /\ \E e \in StartupEnvs :
          /\ env' = e
          /\ CASE variant = "AdvancedAgent" ->
                    LET r == AdvancedAgent_run(StartupQuery, e, config)
                    IN  /\ response' = r.response
                        /\ calls' = r.calls
                        /\ parsed' = r.parsed
                        /\ UNCHANGED formatted_results
               [] variant = "SimplifiedAgent" ->
                    LET r == SimplifiedAgent_process_query(StartupQuery, e, config)
                    IN  /\ response' = r.response
                        /\ calls' = r.calls
                        /\ parsed' = r.parsed
                        /\ UNCHANGED formatted_results
               [] variant = "SimplifiedAdvancedAgent" ->
                    LET r == SimplifiedAdvancedAgent_run(StartupQuery)
                    IN  /\ response' = r.response
                        /\ calls' = r.calls
                        /\ parsed' = r.parsed
                        /\ UNCHANGED formatted_results
               [] variant = "EnhancedArxivSearch" ->
                    LET r == EnhancedArxivSearch_search(
                                 e.arxiv, e.google, TRUE, config.has_google_search)
                    IN  /\ formatted_results' = r.results
                        /\ calls' = r.calls
                        /\ UNCHANGED <<response, parsed>>
    /\ query' = StartupQuery
    /\ ipc' = "searched"
    /\ UNCHANGED <<variant, config, pc, raised, environ>>
    /\ UNCHANGED <<simVars, formatVars, serverVars>>
    /\ UNCHANGED <<spc, max_results, include_abstracts, xml_text,
                   parsed_results, enhanced_results>>

StartupNext ==
    \/ Construct
    \/ StartupSearch

SpecStartup == StartupInit /\ [][StartupNext]_vars

\* the variable holds a value
Present(name) == environ[name] \notin {Absent, ""}

BothCredentials ==
    Present("GOOGLE_SEARCH_API_KEY") /\ Present("GOOGLE_SEARCH_ENGINE_ID")

Constructed == ipc \in {"constructed", "searched"}

\* C22 as stated: in every component has_google_search holds exactly when
\* the API key and the search engine identifier are both in the
\* environment, and with either one missing no web search request is sent.
C22_BothCredentialsNeeded ==
    /\ Constructed => (config.has_google_search <=> BothCredentials)
    /\ (ipc = "searched" /\ ~BothCredentials) => ~Called("google")

\* C22, amended: AdvancedAgent, SimplifiedAgent and SimplifiedAdvancedAgent
\* set has_google_search exactly when both variables hold a value;
\* EnhancedArxivSearch sets it exactly when the API key holds a value and
\* the search engine identifier is not set to the empty string (an unset
\* identifier is replaced by a built-in one).  A web search request is sent
\* only by SimplifiedAgent and EnhancedArxivSearch, and exactly when their
\* flag is set.
C22_SearchConfigured ==
    /\ (Constructed /\ variant # "EnhancedArxivSearch") =>
          (config.has_google_search <=> BothCredentials)
    /\ (Constructed /\ variant = "EnhancedArxivSearch") =>
          (config.has_google_search <=>
              /\ Present("GOOGLE_SEARCH_API_KEY")
              /\ environ["GOOGLE_SEARCH_ENGINE_ID"] # "")
    /\ ipc = "searched" =>
          (Called("google") <=>
              /\ config.has_google_search
              /\ variant \in {"SimplifiedAgent", "EnhancedArxivSearch"})

\* EnhancedArxivSearch sent a web search request although no search engine
\* identifier was set
C22_Witness ==
    /\ ipc = "searched"
    /\ variant = "EnhancedArxivSearch"
    /\ Present("GOOGLE_SEARCH_API_KEY")
    /\ environ["GOOGLE_SEARCH_ENGINE_ID"] = Absent
    /\ config.has_google_search
    /\ Called("google")

\* C23: after construction no request changes the configuration:
\* has_openai_key, has_google_search and every entry of available_tools keep
\* the values computed at startup.
C23_ConfigFrozen == [][config' = config]_vars

\* a request whose remote reasoning call failed has been served and the
\* reasoning tool is still marked available
C23_Witness ==
    /\ pc = "done"
    /\ variant = "AdvancedAgent"
    /\ env.cot_fails
    /\ Called("simulate_reasoning")
    /\ config.has_openai_key
    /\ config.available_tools.reasoning

(***************************************************************************)
(* The server: worker threads serve requests against the agent and the     *)
(* search object built at import time.  A worker's record holds the local  *)
(* variables of its request; config and environ are shared.                *)
(***************************************************************************)
MaxWorkers == 2

Workers == 1..MaxWorkers

\* the environments the server process is started in
ServerEnvirons ==
    {NoEnviron,
     [GOOGLE_SEARCH_API_KEY |-> "value", GOOGLE_SEARCH_ENGINE_ID |-> "value",
      OPENAI_API_KEY |-> "value"]}

\* request bodies of /api/agent, one of each category
ServerQueries ==
    {"2 plus 3", "Explain deep learning", "find deep learning",
     "research on deep learning"}

ServerFeed ==
    Feed("1", <<ArxivEntry(ShortTitle, <<"A. One">>, "A study of deep networks.",
                           <<"cs.LG">>, Absent)>>)

\* the backend behaviours while a request to /api/agent is served
AgentRequestEnvs(q) ==
    LET t == AdvancedAgent_determine_query_type(q)
    IN  {[NoEnv EXCEPT !.arxiv = a] :
            a \in (IF t = "knowledge" THEN {ReplyRaise, ServerFeed}
                                      ELSE {ServerFeed})}

\* the backend behaviours a request to /api/search can meet
SearchRequestEnvs ==
    {[NoEnv EXCEPT !.arxiv = ServerFeed, !.google = g] :
        g \in IF EnhancedArxivSearch_init(environ).has_google_search
              THEN {WebRaise, GoogleItems(<<SurveyItem>>)}
              ELSE {Unused}}

IdleWorker ==
    [pc |-> "idle", route |-> "none", query |-> "", env |-> NoEnv,
     parsed |-> [type |-> Absent], results |-> [error |-> Absent],
     response |-> [status |-> 0]]

ServerInit ==
    /\ variant = "AdvancedAgent"
    /\ environ \in ServerEnvirons
    /\ config = AdvancedAgent_init(environ)
    /\ ipc = "constructed"
    /\ workers = [w \in Workers |-> IdleWorker]
    /\ pc = "idle"
    /\ query = ""
    /\ env = NoEnv
    /\ response = NoResponse
    /\ raised = "none"
    /\ calls = <<>>
    /\ parsed = Unparsed
    /\ text1 = ""
    /\ text2 = ""
    /\ score = Rat(0, 1)
    /\ simpc = "off"
    /\ SearchOff
    /\ FormatOff

ServerFrame ==
    UNCHANGED <<agentVars, simVars, searchVars, formatVars, startVars>>

\* query = data.get('query', '') in query_agent
ReceiveAgentQuery(w) ==
    /\ workers[w].pc = "idle"
    /\ \E q \in ServerQueries : \E e \in AgentRequestEnvs(q) :
          workers' = [workers EXCEPT ![w] =
                         [IdleWorker EXCEPT !.pc = "received", !.route = "agent",
                                            !.query = q, !.env = e]]
    /\ ServerFrame

\* parsed_query = self.parse_query(query)
WorkerParseQuery(w) ==
    /\ workers[w].pc = "received"
    /\ workers[w].route = "agent"
    /\ workers' = [workers EXCEPT
                      ![w].parsed = AdvancedAgent_parse_query(workers[w].query),
                      ![w].pc = "parsed"]
    /\ ServerFrame

\* a run that keeps the parsed query in an attribute of the agent, which
\* the other worker overwrites
Mutant_LocalParsed(w) ==
    IF \E v \in Workers :
          v # w /\ workers[v].route = "agent" /\ workers[v].pc = "parsed"
    THEN workers[CHOOSE v \in Workers :
                    v # w /\ workers[v].route = "agent"
                          /\ workers[v].pc = "parsed"].parsed
    ELSE workers[w].parsed

\* the local variable parsed_query of the worker's call of run
LocalParsed(w) == workers[w].parsed

\* results = self.execute_<category>(parsed_query)
WorkerExecute(w) ==
    /\ workers[w].pc = "parsed"
    /\ workers[w].route = "agent"
    /\ LET parsed_query == LocalParsed(w)
           query_type == parsed_query.type
           e == workers[w].env
           results ==
              CASE query_type = "math" ->
                      AdvancedAgent_execute_math(parsed_query.fields, e.tools_fail)
                [] query_type = "reasoning" ->
                      AdvancedAgent_execute_reasoning(
                          parsed_query.fields, e.arxiv, e.cot_fails,
                          config.available_tools.reasoning)
                [] query_type = "search" ->
                      AdvancedAgent_execute_search(parsed_query.fields,
                                                   config.available_tools.search)
                [] query_type = "knowledge" ->
                      AdvancedAgent_execute_knowledge(
                          AdvancedAgent_parse_knowledge_query(workers[w].query),
                          e.arxiv)
       IN  workers' = [workers EXCEPT
                          ![w].results = [type |-> query_type, value |-> results],
                          ![w].pc = "executed"]
    /\ ServerFrame

\* response = self.format_<category>_response(query, results), then
\* jsonify({'response': result}), or the 500 reply of the except clause
WorkerFormat(w) ==
    /\ workers[w].pc = "executed"
    /\ workers[w].route = "agent"
    /\ LET query_type == workers[w].results.type
           results == workers[w].results.value
           q == workers[w].query
           r == CASE query_type = "math" ->
                       [raised |-> "none",
                        response |-> AdvancedAgent_format_math_response(q, results)]
                  [] query_type = "reasoning" ->
                       [raised |-> "none",
                        response |-> AdvancedAgent_format_reasoning_response(
                                         q, ReasoningResults(results.reasoning),
                                         config.available_tools.reasoning)]
                  [] query_type = "search" ->
                       [raised |-> "none",
                        response |-> AdvancedAgent_format_search_response(q, results)]
                  [] query_type = "knowledge" ->
                       AdvancedAgent_format_knowledge_response(
                           q, results, config.available_tools.reasoning)
       IN  workers' = [workers EXCEPT
                          ![w].response =
                              IF r.raised = "none"
                              THEN [status |-> 200, response |-> r.response]
                              ELSE [status |-> 500, error |-> r.raised],
                          ![w].pc = "replied"]
    /\ ServerFrame

\* query = data.get('query', '') in search_papers
ReceiveSearchQuery(w) ==
    /\ workers[w].pc = "idle"
    /\ \E e \in SearchRequestEnvs :
          workers' = [workers EXCEPT ![w] =
                         [IdleWorker EXCEPT !.pc = "received", !.route = "search",
                                            !.query = "deep learning", !.env = e]]
    /\ ServerFrame

\* arxiv_results = self._query_arxiv(query, max_results)
\* parsed_results = self._parse_arxiv_response(arxiv_results)
WorkerQueryArxiv(w) ==
    /\ workers[w].pc = "received"
    /\ workers[w].route = "search"
    /\ workers' = [workers EXCEPT
                      ![w].parsed =
                          EnhancedArxivSearch_parse_arxiv_response(
                              EnhancedArxivSearch_query_arxiv(
                                  workers[w].env.arxiv).text),
                      ![w].pc = "parsed"]
    /\ ServerFrame

\* the enhancement step of search() on the worker's parsed results
WorkerEnhance(w) ==
    /\ workers[w].pc = "parsed"
    /\ workers[w].route = "search"
    /\ LET has_google_search == EnhancedArxivSearch_init(environ).has_google_search
       IN  workers' = [workers EXCEPT
                          ![w].results =
                              IF has_google_search
                              THEN EnhancedArxivSearch_enhance_with_google(
                                       workers[w].parsed, workers[w].env.google,
                                       has_google_search).results
                              ELSE workers[w].parsed,
                          ![w].pc = "executed"]
    /\ ServerFrame

\* formatted_results = self._format_results(enhanced_results, include_abstracts)
\* and jsonify({'results': results})
WorkerFormatResults(w) ==
    /\ workers[w].pc = "executed"
    /\ workers[w].route = "search"
    /\ workers' = [workers EXCEPT
                      ![w].response =
                          [status |-> 200,
                           results |-> EnhancedArxivSearch_format_results(
                                           workers[w].results, TRUE)],
                      ![w].pc = "replied"]
    /\ ServerFrame

\* the reply has been sent; the worker takes the next request
WorkerDone(w) ==
    /\ workers[w].pc = "replied"
    /\ workers' = [workers EXCEPT ![w] = IdleWorker]
    /\ ServerFrame

ServerNext ==
    \E w \in Workers :
        \/ ReceiveAgentQuery(w)
        \/ WorkerParseQuery(w)
        \/ WorkerExecute(w)
        \/ WorkerFormat(w)
        \/ ReceiveSearchQuery(w)
        \/ WorkerQueryArxiv(w)
        \/ WorkerEnhance(w)
        \/ WorkerFormatResults(w)
        \/ WorkerDone(w)

SpecServer == ServerInit /\ [][ServerNext]_vars

\* the reply the same request gets when it is served alone
Alone(w) ==
    IF workers[w].route = "agent"
    THEN LET r == AdvancedAgent_run(workers[w].query, workers[w].env, config)
         IN  IF r.raised = "none"
             THEN [status |-> 200, response |-> r.response]
             ELSE [status |-> 500, error |-> r.raised]
    ELSE [status |-> 200,
          results |-> EnhancedArxivSearch_search(
                          workers[w].env.arxiv, workers[w].env.google, TRUE,
                          EnhancedArxivSearch_init(environ).has_google_search).results]

\* C24: however the requests of the workers interleave, each reply equals
\* the reply the same query gets when it is run alone with the same
\* configuration and the same backend replies.
C24_RepliesIndependent ==
    \A w \in Workers :
        workers[w].pc = "replied" => workers[w].response = Alone(w)

\* two requests of different categories are in flight, one already answered
C24_Witness ==
    \E w, v \in Workers :
        /\ w # v
        /\ workers[w].pc = "replied"
        /\ workers[w].route = "agent"
        /\ workers[w].parsed.type = "math"
        /\ workers[v].pc \in {"parsed", "executed"}
        /\ workers[v].route = "agent"
        /\ workers[v].parsed.type = "knowledge"

(***************************************************************************)
(* A lookup whose backends may never answer.                               *)
(***************************************************************************)
TimeoutInit ==
    /\ variant = "EnhancedArxivSearch"
    /\ config \in EnhancedConfigs
    /\ pc = "idle"
    /\ query = "research on deep learning"
    /\ env \in {[NoEnv EXCEPT !.arxiv = a, !.google = g] :
                  a \in {ReplyRaise, ReplyStatus, ReplyHang, ServerFeed},
                  g \in IF config.has_google_search
                        THEN {WebRaise, ReplyHang, GoogleNoItems,
                              GoogleItems(<<SurveyItem>>)}
                        ELSE {Unused}}
    /\ response = NoResponse
    /\ raised = "none"
    /\ calls = <<>>
    /\ parsed = Unparsed
    /\ text1 = ""
    /\ text2 = ""
    /\ score = Rat(0, 1)
    /\ simpc = "off"
    /\ spc = "start"
    /\ max_results \in {1, 2}
    /\ include_abstracts \in BOOLEAN
    /\ xml_text = ReplyNoBody
    /\ parsed_results = EmptyResults
    /\ enhanced_results = EmptyResults
    /\ formatted_results = <<>>
    /\ FormatOff
    /\ StartupOff

TimeoutNext ==
    \/ QueryArxiv
    \/ ParseArxivResponse
    \/ EnhanceResults
    \/ FormatResults

SearchStages == {"start", "queried", "parsed", "enhanced", "done"}

\* search() waits in a requests.get that does not return
Blocked ==
    \/ spc = "start" /\ env.arxiv = ReplyHang
    \/ spc = "parsed" /\ config.has_google_search /\ env.google = ReplyHang

\* search() has a step to take
CanStep == spc # "done" /\ ~Blocked

\* search() moves to its next position: the steps of TimeoutNext, seen on
\* spc alone
Advance == CanStep /\ spc' \in SearchStages

\* search() runs to its end unless a call it makes does not return
SpecTimeout == TimeoutInit /\ [][TimeoutNext]_vars /\ WF_spc(Advance)

\* every step of search() is a step of Advance that changes spc
StepsAdvance == [][CanStep /\ spc' # spc]_vars

\* a lookup returns unless it is blocked in a call
ReturnsUnlessBlocked == <>(spc = "done" \/ Blocked)

\* C25: every request eventually returns, even when a backend never
\* replies.
C25_RequestReturns == <>(spc = "done")

\* a reasoning request of AdvancedAgent has been answered
ReasoningAnswered ==
    /\ pc = "done"
    /\ variant = "AdvancedAgent"
    /\ parsed.type = "reasoning"

\* the positions in calls of the requests to the academic backend
ArxivCalls == {i \in 1..Len(calls) : StartsWith(calls[i], "arxiv:")}

\* C26: every reasoning query of AdvancedAgent issues exactly one academic
\* query, with max_results 1, before any reasoning text is produced, also
\* for greetings and one-word inputs; whatever the outcome of that query,
\* the reply carries a reasoning text.
C26_KnowledgeBeforeReasoning ==
    ReasoningAnswered =>
        /\ Cardinality(ArxivCalls) = 1
        /\ \A i \in ArxivCalls :
              /\ calls[i] = ArxivCall(1)
              /\ \A j \in 1..Len(calls) :
                    calls[j] \in {"tool:sequential_cot", "simulate_reasoning"}
                        => i < j
        /\ Called("tool:sequential_cot") \/ Called("simulate_reasoning")
        /\ raised = "none"
        /\ response.tmpl = "Reasoning for your query: '{query}'"
        /\ response.reasoning.tmpl # Absent

\* the greeting "hi" was answered after the academic query failed
C26_Witness ==
    /\ ReasoningAnswered
    /\ query = "hi"
    /\ env.arxiv = ReplyRaise
    /\ Called(ArxivCall(1))
    /\ response.reasoning = CapabilitiesText

\* the category branches of run that were taken
BranchesTaken ==
    {c \in {"execute_math", "execute_reasoning", "execute_search",
            "execute_knowledge"} : Called(c)}

\* C27: _determine_query_type returns one of 'math', 'knowledge',
\* 'reasoning', 'search' for every query, so run takes exactly one of the
\* four category branches and never answers "I'm not sure how to process
\* this type of query."
C27_FourCategories ==
    (pc = "done" /\ variant = "AdvancedAgent") =>
        /\ parsed.type \in {"math", "knowledge", "reasoning", "search"}
        /\ parsed.type = AdvancedAgent_determine_query_type(query)
        /\ BranchesTaken = {"execute_" \o parsed.type}
        /\ response.tmpl # "I'm not sure how to process this type of query."

\* a greeting, which matches no term list, went through the reasoning branch
C27_Witness ==
    /\ pc = "done"
    /\ variant = "AdvancedAgent"
    /\ query = "hi"
    /\ parsed.type = "reasoning"
    /\ BranchesTaken = {"execute_reasoning"}

\* the response lists search results
ListsSearchResults == response.tmpl = "Search results for: '{query}'"

\* C28: AdvancedAgent produces simulated search results exactly when the
\* web search is not configured; when it is configured every search query
\* gets the apology for 'Real search API call not implemented in this demo'
\* and no search results, live or simulated.
C28_SimulatedOrApology ==
    (pc = "done" /\ variant = "AdvancedAgent") =>
        /\ ListsSearchResults <=>
              (parsed.type = "search" /\ ~config.has_google_search)
        /\ ListsSearchResults =>
              /\ Len(response.results) = 3
              /\ \A i \in 1..3 :
                    StartsWith(response.results[i].title, "Simulated result")
              /\ response.note =
                    "These are simulated results. Set up API keys for real search functionality."
        /\ (parsed.type = "search" /\ config.has_google_search) =>
              response = Apology("search",
                                 "Real search API call not implemented in this demo")
        /\ ~Called("google")

\* a search query was answered by the apology because the web search is
\* configured
C28_Witness ==
    /\ pc = "done"
    /\ variant = "AdvancedAgent"
    /\ parsed.type = "search"
    /\ config.has_google_search
    /\ response.tmpl = "I couldn't process your search query: {error}"

(***************************************************************************)
(* The math parsers as functions of the query.                             *)
(***************************************************************************)
MaxMathWords == 4

\* the words math queries are made of
MathVocab == {"add", "and", "-5", "3", "7-2", "1.5"}

MathQueries ==
    {JoinWith(ws, " ") : ws \in UNION {[1..n -> MathVocab] : n \in 0..MaxMathWords}}

MathInit ==
    /\ variant \in {"AdvancedAgent", "BasicAgent"}
    /\ config = IF variant = "AdvancedAgent" THEN AdvancedAgent_init(NoEnviron)
                ELSE BasicAgent_init(NoEnviron)
    /\ pc = "pending"
    /\ query \in MathQueries
    /\ env = NoEnv
    /\ response = NoResponse
    /\ raised = "none"
    /\ calls = <<>>
    /\ parsed = Unparsed
    /\ text1 = ""
    /\ text2 = ""
    /\ score = Rat(0, 1)
    /\ simpc = "off"
    /\ SearchOff
    /\ FormatOff
    /\ StartupOff

\* parsed = self._parse_math_query(query)  /  self.parse_query(query)
ParseMathQuery ==
    /\ pc = "pending"
    /\ LET r == IF variant = "AdvancedAgent"
                THEN AdvancedAgent_parse_math_query(query)
                ELSE BasicAgent_parse_query(query)
       IN  parsed' = [type |-> "math", operations |-> r.operations,
                      numbers |-> r.numbers]
    /\ calls' = <<"parse_math_query">>
    /\ pc' = "done"
    /\ UNCHANGED <<variant, config, query, env, response, raised>>
    /\ UNCHANGED <<simVars, searchVars, formatVars, startVars, serverVars>>

MathNext == ParseMathQuery

SpecMath == MathInit /\ [][MathNext]_vars

\* the unsigned numbers written in a word, from left to right
WordNumbers(word) ==
    CASE word = "-5" -> <<Rat(5, 1)>>
      [] word = "3" -> <<Rat(3, 1)>>
      [] word = "7-2" -> <<Rat(7, 1), Rat(2, 1)>>
      [] word = "1.5" -> <<Rat(3, 2)>>
      [] OTHER -> <<>>

RECURSIVE NumbersOfWords(_)
NumbersOfWords(words) ==
    IF words = <<>> THEN <<>>
    ELSE WordNumbers(Head(words)) \o NumbersOfWords(Tail(words))

\* C29: the numbers extracted from a query are non-negative and in the
\* order in which they are written; a minus sign or hyphen is never part of
\* a number and makes the subtraction operator match.
C29_UnsignedNumbers ==
    (pc = "done" /\ Called("parse_math_query")) =>
        /\ \A i \in 1..Len(parsed.numbers) :
              parsed.numbers[i].n >= 0 /\ parsed.numbers[i].d > 0
        /\ parsed.numbers = NumbersOfWords(split(query))
        /\ Contains(query, "-") =>
              \E i \in 1..Len(parsed.operations) :
                 parsed.operations[i] = "subtraction"

\* 'add -5 and 3' was parsed: 5 and 3, addition and subtraction
C29_Witness ==
    /\ pc = "done"
    /\ Called("parse_math_query")
    /\ query = "add -5 and 3"
    /\ parsed.numbers = <<Rat(5, 1), Rat(3, 1)>>
    /\ parsed.operations = <<"addition", "subtraction">>

(***************************************************************************)
(* _simulate_reasoning as a function of the query.                         *)
(***************************************************************************)
\* the words the simulator's queries are made of
SimulateVocab == {"egg", "Eggs", "gear", "GEAR", "hi", "what", "is"}

SimulateQueries ==
    {JoinWith(ws, " ") : ws \in UNION {[1..n -> SimulateVocab] : n \in 0..MaxWords}}

SimulateInit ==
    /\ variant = "AdvancedAgent"
    /\ config \in Configs("AdvancedAgent")
    /\ pc = "pending"
    /\ query \in SimulateQueries
    /\ env = NoEnv
    /\ response = NoResponse
    /\ raised = "none"
    /\ calls = <<>>
    /\ parsed = Unparsed
    /\ text1 = ""
    /\ text2 = ""
    /\ score = Rat(0, 1)
    /\ simpc = "off"
    /\ SearchOff
    /\ FormatOff
    /\ StartupOff

\* self._simulate_reasoning(query)
SimulateReasoning ==
    /\ pc = "pending"
    /\ response' = AdvancedAgent_simulate_reasoning(query, 3, "")
    /\ calls' = <<"simulate_reasoning", SimulateBranch(query)>>
    /\ pc' = "done"
    /\ UNCHANGED <<variant, config, query, env, raised, parsed>>
    /\ UNCHANGED <<simVars, searchVars, formatVars, startVars, serverVars>>

SimulateNext == SimulateReasoning

SpecSimulate == SimulateInit /\ [][SimulateNext]_vars

EggText == [tmpl |-> "I'll explain what an egg is:"]

\* C30: in _simulate_reasoning the greeting and short-input checks come
\* first: the branch for the query 'gear' is never taken, a one-word query
\* gets the short-input template, and the egg explanation is returned only
\* for queries of three or more words that contain 'egg'.
C30_ShortInputDominates ==
    (pc = "done" /\ Called("simulate_reasoning")) =>
        /\ ~Called("gear")
        /\ response = EggText <=>
              /\ Len(split(lower(query))) >= 3
              /\ Contains(lower(query), "egg")
        /\ lower(query) \in {"egg", "gear"} => response = ShortQueryText(query)

\* the one-word query 'gear' got the short-input template
C30_Witness ==
    /\ pc = "done"
    /\ Called("simulate_reasoning")
    /\ query = "gear"
    /\ Called("short")
    /\ response = ShortQueryText("gear")

====
